---- MODULE Spec2Model ----
(***************************************************************************)
(* ResuAI semantic scoring core: UniversitySemanticEngine (embedding       *)
(* provider, caches, category relevance) and                               *)
(* EnhancedUniversityAssessmentEngine (weighted blend, fallback chain,     *)
(* batch assessment, weight configuration).                                *)
(*                                                                         *)
(* Units.  Similarities and category scores are thousandths of 1           *)
(* (0..1000), weights are hundredths of 1, scores on the 0-100 scale are   *)
(* tenths (0..1000), vectors have integer components of norm 1000.         *)
(* Python's None is the value None.                                        *)
(***************************************************************************)
EXTENDS Integers, Sequences, FiniteSets, TLC

VARIABLES
    deps_available,              \* SEMANTIC_DEPENDENCIES_AVAILABLE
    model_loaded,                \* self.model is not None
    encode_raises,               \* the embedding library currently raises on encode
    job_embeddings_cache,        \* self.job_embeddings_cache
    candidate_embeddings_cache,  \* self.candidate_embeddings_cache
    job_file,                    \* semantic_cache/job_embeddings.pkl: [exists, corrupt, content]
    candidate_file,              \* semantic_cache/candidate_embeddings.pkl, the same
    semantic_weights,            \* self.semantic_weights
    assessment_stats,            \* self.assessment_stats
    batch,                       \* the batch_assess_candidates run in progress
    threads,                     \* the calls of assess_candidate_enhanced running in threads
    completed_calls,             \* how many calls of assess_candidate_enhanced have returned
    last                         \* the last completed public call and what it returned

vars == <<deps_available, model_loaded, encode_raises, job_embeddings_cache,
          candidate_embeddings_cache, job_file, candidate_file, semantic_weights,
          assessment_stats, batch, threads, completed_calls, last>>

----------------------------------------------------------------------------
(* Bounds of the model *)

MaxAssessments == 2     \* calls of assess_candidate_enhanced counted by the stats
MaxBatch == 2           \* candidates in one batch run
NumThreads == 2         \* threads calling assess_candidate_enhanced on one engine
MaxRecords == 2         \* records in a list handed to a category formatter

(* Program constants *)

max_sequence_length == 512

\* Python's None: for a missing number, and for a missing vector
None == 0 - 1
NoVector == <<>>

----------------------------------------------------------------------------
(* Small helpers standing for Python built-ins *)

Min(a, b) == IF a < b THEN a ELSE b
Max(a, b) == IF a > b THEN a ELSE b
Abs(a) == IF a < 0 THEN -a ELSE a

Take(s, n) == SubSeq(s, 1, Min(n, Len(s)))

RECURSIVE Join(_, _)
Join(parts, sep) ==
    IF Len(parts) = 0 THEN ""
    ELSE IF Len(parts) = 1 THEN parts[1]
    ELSE parts[1] \o sep \o Join(Tail(parts), sep)

RECURSIVE LStrip(_)
LStrip(s) ==
    IF Len(s) > 0 /\ SubSeq(s, 1, 1) = " " THEN LStrip(SubSeq(s, 2, Len(s))) ELSE s

RECURSIVE RStrip(_)
RStrip(s) ==
    IF Len(s) > 0 /\ SubSeq(s, Len(s), Len(s)) = " "
    THEN RStrip(SubSeq(s, 1, Len(s) - 1)) ELSE s

Strip(s) == RStrip(LStrip(s))

\* profile_parts / texts built by appending the lines of each entry in turn
RECURSIVE Extend(_)
Extend(parts) ==
    IF Len(parts) = 0 THEN <<>> ELSE Head(parts) \o Extend(Tail(parts))

\* round(x, k) of a non-negative quantity n/d, to the nearest integer, ties to even
RoundDiv(n, d) ==
    LET q == n \div d
        r == n % d
    IN  IF 2 * r < d THEN q
        ELSE IF 2 * r > d THEN q + 1
        ELSE IF q % 2 = 0 THEN q ELSE q + 1

\* the same for a signed numerator
RoundDivSigned(n, d) == IF n >= 0 THEN RoundDiv(n, d) ELSE -RoundDiv(-n, d)

----------------------------------------------------------------------------
(* Input data: candidates (PDS records) and job postings.  A key that is    *)
(* absent from a Python dict is the empty string or the empty list here,    *)
(* which is what every .get(key, default) of the engine turns it into.      *)

Edu(level, degree, school, honors, year) ==
    [level |-> level, degree_course |-> degree, degree |-> degree,
     school |-> school, honors |-> honors, year_graduated |-> year]

Exp(position, company, grade, description) ==
    [position |-> position, company |-> company, grade |-> grade,
     description |-> description, date_from |-> "", date_to |-> ""]

Train(title, type, conductor, hours) ==
    [title |-> title, type |-> type, conductor |-> conductor, hours |-> hours]

Elig(eligibility, rating) == [eligibility |-> eligibility, rating |-> rating]

Candidate(id, eb, ed, we, ex, ld, tr, cs, cit) ==
    [id |-> id, educational_background |-> eb, education |-> ed,
     work_experience |-> we, experience |-> ex,
     learning_development |-> ld, training |-> tr,
     civil_service_eligibility |-> cs, citizenship |-> cit]

\* every section empty
EmptyCandidate == Candidate("1", <<>>, <<>>, <<>>, <<>>, <<>>, <<>>, <<>>, "")

\* the converted format of the test suite: education / experience / training
ConvertedCandidate ==
    Candidate("2", <<>>, <<Edu("", "PhD", "MIT", "", "")>>,
              <<>>, <<Exp("Lecturer", "MIT", "", "Teaching")>>,
              <<>>, <<Train("Pedagogy", "", "", "")>>, <<>>, "")

\* the direct PDS structure
PdsCandidate ==
    Candidate("3", <<Edu("College", "BS", "UP", "N/A", "2010")>>, <<>>,
              <<Exp("Clerk", "LGU", "n/a", "")>>, <<>>,
              <<Train("Seminar", "N/A", "CSC", "8")>>, <<>>,
              <<Elig("Career Service", 805)>>, "Filipino")

Candidates == {EmptyCandidate, ConvertedCandidate, PdsCandidate}

Job(id, title, description, requirements) ==
    [id |-> id, title |-> title, description |-> description,
     requirements |-> requirements, department |-> "", experience_level |-> ""]

ProfessorJob == Job("1", "Professor", "Teaching", "PhD")

Jobs == {ProfessorJob}

----------------------------------------------------------------------------
(* Embedding vectors and the embedding library *)

Vectors == << <<1000, 0>>, <<0, 1000>>, <<600, 800>>, <<-1000, 0>>, <<800, 600>> >>

\* SentenceTransformer.encode(text, normalize_embeddings=True): a fixed
\* function of the text into unit vectors
ModelEncode(text) == Vectors[(Len(text) % Len(Vectors)) + 1]

\* the md5-derived pseudo-embedding of the degraded mode (digest bytes, zero
\* padded and normalised): another fixed function of the text
HashVector(text) == Vectors[((Len(text) * Len(text) + 1) % Len(Vectors)) + 1]

\* hashlib.md5(...).hexdigest(), taken to be collision free
md5(s) == "md5(" \o s \o ")"

model_name == "all-MiniLM-L6-v2"

is_available == deps_available

generate_cache_key(text, context) ==
    md5(text \o "_" \o context \o "_" \o model_name)

\* dict[key] = value
Put(cache, key, value) ==
    [k \in DOMAIN cache \cup {key} |-> IF k = key THEN value ELSE cache[k]]

EmptyCache == [k \in {} |-> NoVector]

(* The engine's mutable part while one call runs: both caches, the job      *)
(* cache file, and the texts handed to the embedding library so far.        *)
Engine(jc, cc, jf, cf, encoded) ==
    [jc |-> jc, cc |-> cc, jf |-> jf, cf |-> cf, calls |-> encoded]

CurrentEngine ==
    Engine(job_embeddings_cache, candidate_embeddings_cache, job_file,
           candidate_file, <<>>)

\* a cache file: whether it exists, whether it can be unpickled, what it holds
CacheFile(content) == [exists |-> TRUE, corrupt |-> FALSE, content |-> content]
NoFile == [exists |-> FALSE, corrupt |-> FALSE, content |-> EmptyCache]

\* pickle.dump of the job cache when cache_type is "job" or "both" and of the
\* candidate cache when it is "candidate" or "both", each only when the cache
\* is not empty
save_embedding_cache(e, cache_type) ==
    [e EXCEPT
        !.jf = IF cache_type \in {"job", "both"} /\ DOMAIN e.jc # {}
               THEN CacheFile(e.jc) ELSE @,
        !.cf = IF cache_type \in {"candidate", "both"} /\ DOMAIN e.cc # {}
               THEN CacheFile(e.cc) ELSE @]

\* lines 122-125, after the job cache file was dealt with
LoadCandidateCache(e) ==
    IF ~e.cf.exists THEN e
    ELSE IF e.cf.corrupt THEN e                    \* pickle.load raises: warning
    ELSE [e EXCEPT !.cc = e.cf.content]

\* load_embedding_cache unpickling whatever the files hold
load_embedding_cache_unchecked(e) ==
    [e EXCEPT !.jc = IF e.jf.exists THEN e.jf.content ELSE @,
              !.cc = IF e.cf.exists THEN e.cf.content ELSE @]

\* _load_embedding_cache: the whole body is inside try/except, so the call
\* returns on every path; an exception leaves the rest of the body undone
load_embedding_cache(e) ==
    IF ~e.jf.exists THEN LoadCandidateCache(e)
    ELSE IF e.jf.corrupt THEN e                    \* pickle.load raises: warning
    ELSE LoadCandidateCache([e EXCEPT !.jc = e.jf.content])

\* encode_text answering a cache hit with the hash-derived vector of the text
encode_text_stale_hit(text, context, use_cache, e) ==
    IF ~is_available THEN [vec |-> HashVector(text), e |-> e]
    ELSE IF use_cache /\ generate_cache_key(text, context) \in DOMAIN e.cc
    THEN [vec |-> HashVector(text), e |-> e]
    ELSE IF ~model_loaded THEN [vec |-> NoVector, e |-> e]
    ELSE IF encode_raises
    THEN [vec |-> NoVector,
          e |-> [e EXCEPT !.calls = Append(@, Take(text, max_sequence_length))]]
    ELSE [vec |-> ModelEncode(Take(text, max_sequence_length)),
          e |-> [e EXCEPT
                    !.calls = Append(@, Take(text, max_sequence_length)),
                    !.cc = IF use_cache
                           THEN Put(@, generate_cache_key(text, context),
                                    ModelEncode(Take(text, max_sequence_length)))
                           ELSE @]]

\* encode_text encoding again on a cache hit instead of returning the stored vector
encode_text_without_lookup(text, context, use_cache, e) ==
    IF ~is_available THEN [vec |-> HashVector(text), e |-> e]
    ELSE IF ~model_loaded THEN [vec |-> NoVector, e |-> e]
    ELSE IF encode_raises
    THEN [vec |-> NoVector,
          e |-> [e EXCEPT !.calls = Append(@, Take(text, max_sequence_length))]]
    ELSE [vec |-> ModelEncode(Take(text, max_sequence_length)),
          e |-> [e EXCEPT
                    !.calls = Append(@, Take(text, max_sequence_length)),
                    !.cc = IF use_cache
                           THEN Put(@, generate_cache_key(text, context),
                                    ModelEncode(Take(text, max_sequence_length)))
                           ELSE @]]

\* returns [vec, e]
encode_text(text, context, use_cache, e) ==
    IF ~is_available THEN [vec |-> HashVector(text), e |-> e]
    ELSE
    LET cache_key == generate_cache_key(text, context) IN
    IF use_cache /\ cache_key \in DOMAIN e.cc
    THEN [vec |-> e.cc[cache_key], e |-> e]
    ELSE
    LET truncated == IF Len(text) > max_sequence_length
                     THEN SubSeq(text, 1, max_sequence_length) ELSE text
    IN  IF ~model_loaded
        THEN [vec |-> NoVector, e |-> e]          \* None.encode: AttributeError
        ELSE IF encode_raises
        THEN [vec |-> NoVector,
              e |-> [e EXCEPT !.calls = Append(@, truncated)]]
        ELSE LET embedding == ModelEncode(truncated)
                 e1 == [e EXCEPT !.calls = Append(@, truncated)]
             IN  [vec |-> embedding,
                  e |-> IF use_cache
                        THEN [e1 EXCEPT !.cc = Put(@, cache_key, embedding)]
                        ELSE e1]

JobText(job_data) ==
    Join((IF job_data.title # "" THEN <<"Job Title: " \o job_data.title>> ELSE <<>>)
         \o (IF job_data.department # ""
             THEN <<"Department: " \o job_data.department>> ELSE <<>>)
         \o (IF job_data.experience_level # ""
             THEN <<"Experience Level: " \o job_data.experience_level>> ELSE <<>>)
         \o (IF job_data.description # ""
             THEN <<"Description: " \o job_data.description>> ELSE <<>>)
         \o (IF job_data.requirements # ""
             THEN <<"Requirements: " \o job_data.requirements>> ELSE <<>>),
         " | ")

\* lines 231-236: r is what encode_text returned for the job text
CacheJobEmbedding(r, cache_key) ==
    IF r.vec # NoVector
    THEN [vec |-> r.vec,
          e |-> save_embedding_cache([r.e EXCEPT !.jc = Put(@, cache_key, r.vec)],
                                     "job")]
    ELSE r

\* encode_job_requirements without the cache lookup of lines 224-226
encode_job_requirements_uncached(job_data, e) ==
    IF ~is_available THEN [vec |-> NoVector, e |-> e]
    ELSE CacheJobEmbedding(
             encode_text(JobText(job_data), "job_" \o job_data.id, FALSE, e),
             generate_cache_key(JobText(job_data), "job_" \o job_data.id))

\* returns [vec, e]
encode_job_requirements(job_data, e) ==
    IF ~is_available THEN [vec |-> NoVector, e |-> e]
    ELSE
    LET job_text == JobText(job_data)
        context == "job_" \o job_data.id
        cache_key == generate_cache_key(job_text, context)
    IN  IF cache_key \in DOMAIN e.jc
        THEN [vec |-> e.jc[cache_key], e |-> e]
        ELSE CacheJobEmbedding(encode_text(job_text, context, FALSE, e), cache_key)

----------------------------------------------------------------------------
(* encode_candidate_profile: the candidate's profile text and its embedding *)

\* f"{rating_pct:.1f}" of float(rating) * 100, the rating in thousandths
RatingPct(rating) == ToString(rating \div 10) \o "." \o ToString(rating % 10)

ProfileEducationConverted(edu) ==
    IF edu.degree # "" \/ edu.school # ""
    THEN <<"Education: " \o edu.level \o " " \o edu.degree \o " from " \o edu.school>>
    ELSE <<>>

ProfileEducationPds(edu) ==
    IF edu.degree_course # "" \/ edu.school # ""
    THEN <<"Education: " \o edu.level \o " " \o edu.degree_course \o " from "
           \o edu.school
           \o (IF edu.honors # "" /\ edu.honors # "N/a"
               THEN " with " \o edu.honors ELSE "")>>
    ELSE <<>>

ProfileExperienceConverted(exp) ==
    IF exp.position # "" \/ exp.company # ""
    THEN <<"Experience: " \o exp.position \o " at " \o exp.company
           \o (IF exp.description # ""
               THEN " - " \o Take(exp.description, 100) ELSE "")>>
    ELSE <<>>

ProfileExperiencePds(exp) ==
    IF exp.position # "" \/ exp.company # ""
    THEN <<"Experience: " \o exp.position \o " at " \o exp.company
           \o (IF exp.grade # "" /\ exp.grade # "N/A"
               THEN " (" \o exp.grade \o ")" ELSE "")>>
    ELSE <<>>

ProfileTrainingConverted(cert) ==
    IF cert.title # "" THEN <<"Training: " \o cert.title>> ELSE <<>>

ProfileTrainingPds(train) ==
    IF train.title # ""
    THEN <<"Training: " \o train.title
           \o (IF train.type # "" /\ train.type # "N/a"
               THEN " (" \o train.type \o ")" ELSE "")
           \o (IF train.hours # "" THEN " - " \o train.hours \o " hours" ELSE "")>>
    ELSE <<>>

ProfileEligibility(elig) ==
    IF elig.eligibility # ""
    THEN <<"Eligibility: " \o elig.eligibility
           \o (IF elig.rating # 0
               THEN " (Rating: " \o RatingPct(elig.rating) \o "%)" ELSE "")>>
    ELSE <<>>

ProfileParts(candidate_data) ==
    (IF Len(candidate_data.educational_background) = 0
     THEN Extend([i \in DOMAIN Take(candidate_data.education, 4) |-> ProfileEducationConverted(Take(candidate_data.education, 4)[i])])
     ELSE Extend([i \in DOMAIN Take(candidate_data.educational_background, 4) |-> ProfileEducationPds(Take(candidate_data.educational_background, 4)[i])]))
    \o (IF Len(candidate_data.work_experience) = 0
        THEN Extend([i \in DOMAIN Take(candidate_data.experience, 4) |-> ProfileExperienceConverted(Take(candidate_data.experience, 4)[i])])
        ELSE Extend([i \in DOMAIN Take(candidate_data.work_experience, 4) |-> ProfileExperiencePds(Take(candidate_data.work_experience, 4)[i])]))
    \o (IF Len(candidate_data.learning_development) = 0
        THEN Extend([i \in DOMAIN Take(candidate_data.training, 3) |-> ProfileTrainingConverted(Take(candidate_data.training, 3)[i])])
        ELSE Extend([i \in DOMAIN Take(candidate_data.learning_development, 3) |-> ProfileTrainingPds(Take(candidate_data.learning_development, 3)[i])]))
    \o Extend([i \in DOMAIN Take(candidate_data.civil_service_eligibility, 2) |-> ProfileEligibility(Take(candidate_data.civil_service_eligibility, 2)[i])])
    \o (IF candidate_data.citizenship # ""
           /\ candidate_data.citizenship \notin {"N/a", "please indicate the details."}
        THEN <<"Citizenship: " \o candidate_data.citizenship>> ELSE <<>>)

CandidateText(candidate_data) == Join(ProfileParts(candidate_data), " | ")

\* returns [vec, e]
encode_candidate_profile(candidate_data, e) ==
    IF ~is_available THEN [vec |-> NoVector, e |-> e]
    ELSE
    LET candidate_text == CandidateText(candidate_data) IN
    IF Strip(candidate_text) = ""
    THEN [vec |-> NoVector, e |-> e]
    ELSE encode_text(candidate_text, "candidate_" \o candidate_data.id, TRUE, e)

----------------------------------------------------------------------------
(* Similarity, in millionths of 1 *)

Dot(a, b) == a[1] * b[1] + a[2] * b[2]

\* calculate_semantic_similarity returning the clamped cosine, not rescaled
calculate_semantic_similarity_cosine(candidate_embedding, job_embedding) ==
    IF candidate_embedding = NoVector \/ job_embedding = NoVector
    THEN 0
    ELSE Max(0, Min(1000000, Dot(candidate_embedding, job_embedding)))

\* calculate_semantic_similarity taking None for the zero vector
calculate_semantic_similarity_none_as_zero(candidate_embedding, job_embedding) ==
    IF candidate_embedding = NoVector \/ job_embedding = NoVector
    THEN 500000
    ELSE Max(0, Min(1000000, (Dot(candidate_embedding, job_embedding) + 1000000) \div 2))

\* the whole body is inside try/except: the value is what the call returns
calculate_semantic_similarity(candidate_embedding, job_embedding) ==
    IF candidate_embedding = NoVector \/ job_embedding = NoVector
    THEN 0                                   \* np.dot raises; caught: 0.0
    ELSE Max(0, Min(1000000, (Dot(candidate_embedding, job_embedding) + 1000000) \div 2))

----------------------------------------------------------------------------
(* Category relevance: each returns [score, e], the score in millionths *)

\* the comparison shared by the three categories, after the texts are built
CompareEmbeddings(c, j) ==
    IF c.vec = NoVector \/ j.vec = NoVector
    THEN [score |-> 0, e |-> j.e]
    ELSE [score |-> calculate_semantic_similarity(c.vec, j.vec), e |-> j.e]

CompareWithJob(c, job_text, job_ctx) ==
    CompareEmbeddings(c, encode_text(job_text, job_ctx, TRUE, c.e))

CompareTexts(texts, ctx, job_text, job_ctx, e) ==
    IF Len(texts) = 0 THEN [score |-> 0, e |-> e]
    ELSE CompareWithJob(encode_text(Join(texts, " | "), ctx, TRUE, e),
                        job_text, job_ctx)

RelevanceEducationPds(edu) ==
    IF edu.degree_course # "" \/ edu.school # ""
    THEN <<edu.level \o " " \o edu.degree_course \o " from " \o edu.school
           \o (IF edu.honors # "" /\ edu.honors \notin {"N/a", ""}
               THEN " with " \o edu.honors ELSE "")
           \o (IF edu.year_graduated # ""
               THEN " (graduated " \o edu.year_graduated \o ")" ELSE "")>>
    ELSE <<>>

RelevanceEducationConverted(edu) ==
    IF edu.degree # "" \/ edu.school # ""
    THEN <<Strip(edu.level \o " " \o edu.degree \o " from " \o edu.school)>>
    ELSE <<>>

EducationTexts(candidate_data) ==
    IF Len(candidate_data.educational_background) > 0
    THEN Extend([i \in DOMAIN Take(candidate_data.educational_background, 4) |-> RelevanceEducationPds(Take(candidate_data.educational_background, 4)[i])])
    ELSE Extend([i \in DOMAIN Take(candidate_data.education, 4) |-> RelevanceEducationConverted(Take(candidate_data.education, 4)[i])])

calculate_education_relevance(candidate_data, job_data, e) ==
    CompareTexts(EducationTexts(candidate_data), "education",
                 job_data.title \o " " \o job_data.requirements,
                 "job_edu_comparison", e)

RelevanceExperiencePds(exp) ==
    IF exp.position # "" \/ exp.company # ""
    THEN <<exp.position \o " at " \o exp.company
           \o (IF exp.grade # "" /\ exp.grade # "N/A"
               THEN " (Grade: " \o exp.grade \o ")" ELSE "")
           \o (IF exp.date_from # "" \/ exp.date_to # ""
               THEN " (" \o exp.date_from \o " to " \o exp.date_to \o ")" ELSE "")>>
    ELSE <<>>

RelevanceExperienceConverted(exp) ==
    IF exp.position # "" \/ exp.description # ""
    THEN <<Strip(exp.position \o " - " \o Take(exp.description, 100))>>
    ELSE <<>>

ExperienceTexts(candidate_data) ==
    IF Len(candidate_data.work_experience) > 0
    THEN Extend([i \in DOMAIN Take(candidate_data.work_experience, 4) |-> RelevanceExperiencePds(Take(candidate_data.work_experience, 4)[i])])
    ELSE Extend([i \in DOMAIN Take(candidate_data.experience, 4) |-> RelevanceExperienceConverted(Take(candidate_data.experience, 4)[i])])

BroadJobText(job_data) ==
    job_data.title \o " " \o job_data.description \o " " \o job_data.requirements

calculate_experience_relevance(candidate_data, job_data, e) ==
    CompareTexts(ExperienceTexts(candidate_data), "experience",
                 BroadJobText(job_data), "job_exp_comparison", e)

RelevanceTrainingPds(train) ==
    IF train.title # ""
    THEN <<train.title
           \o (IF train.type # "" /\ train.type # "N/a"
               THEN " (" \o train.type \o ")" ELSE "")
           \o (IF train.conductor # "" THEN " by " \o train.conductor ELSE "")
           \o (IF train.hours # "" THEN " - " \o train.hours \o " hours" ELSE "")>>
    ELSE <<>>

RelevanceTrainingConverted(train) ==
    IF train.title # ""
    THEN <<train.title \o (IF train.type # "" THEN " (" \o train.type \o ")" ELSE "")>>
    ELSE <<>>

TrainingTexts(candidate_data) ==
    IF Len(candidate_data.learning_development) > 0
    THEN Extend([i \in DOMAIN Take(candidate_data.learning_development, 5) |-> RelevanceTrainingPds(Take(candidate_data.learning_development, 5)[i])])
    ELSE Extend([i \in DOMAIN Take(candidate_data.training, 5) |-> RelevanceTrainingConverted(Take(candidate_data.training, 5)[i])])

calculate_training_relevance(candidate_data, job_data, e) ==
    CompareTexts(TrainingTexts(candidate_data), "training",
                 BroadJobText(job_data), "job_training_comparison", e)

----------------------------------------------------------------------------
(* The category text formatters of the PDS test scripts.  Their records are *)
(* dicts in which a key may be absent, so a record here has exactly the     *)
(* keys that are present; a record list that is None is NoList.             *)

\* dict.get(key, default)
Get(rec, key, default) == IF key \in DOMAIN rec THEN rec[key] ELSE default

List(records) == [given |-> TRUE, records |-> records]
NoList == [given |-> FALSE, records |-> <<>>]

\* 'not records': the list is None or empty
Falsy(list) == ~list.given \/ Len(list.records) = 0

\* debug_semantic_text.py
EducationEntry(level, school, course) ==
    level \o ": " \o school
    \o (IF course # "" /\ course # "N/a" THEN " - " \o course ELSE "")

FormatEducationEntry(edu) ==
    EducationEntry(Get(edu, "level", "Unknown Level"),
                   Get(edu, "school", "Unknown Institution"),
                   Get(edu, "degree_course", ""))

format_education(educational_background) ==
    IF Falsy(educational_background) THEN "No education information available"
    ELSE Join([i \in DOMAIN educational_background.records |->
                  FormatEducationEntry(educational_background.records[i])], "; ")

FormatExperienceEntry(exp) ==
    Get(exp, "position", "Unknown Position") \o " at "
    \o Get(exp, "company", "Unknown Company")

format_experience(work_experience) ==
    IF Falsy(work_experience) THEN "No work experience available"
    ELSE Join([i \in DOMAIN work_experience.records |->
                  FormatExperienceEntry(work_experience.records[i])], "; ")

TrainingEntry(title, type_info) ==
    title \o (IF type_info # "" /\ type_info # "N/a"
              THEN " (" \o type_info \o ")" ELSE "")

FormatTrainingEntry(train) ==
    TrainingEntry(Get(train, "title", "Unknown Training"), Get(train, "type", ""))

format_training(learning_development) ==
    IF Falsy(learning_development) THEN "No training information available"
    ELSE Join([i \in DOMAIN learning_development.records |->
                  FormatTrainingEntry(learning_development.records[i])], "; ")

\* simple_pds_semantic_test.py: the same three names, with fallback keys
SimpleEducationEntry(level, school, course) ==
    level \o ": " \o school \o (IF course # "" THEN " - " \o course ELSE "")

SimpleFormatEducationEntry(edu) ==
    SimpleEducationEntry(
        Get(edu, "level", Get(edu, "education_level", "Unknown")),
        Get(edu, "school", Get(edu, "institution", "Unknown Institution")),
        Get(edu, "course", Get(edu, "degree", "")))

simple_format_education(education_list) ==
    IF Falsy(education_list) THEN "No education information available"
    ELSE Join([i \in DOMAIN education_list.records |->
                  SimpleFormatEducationEntry(education_list.records[i])], "; ")

SimpleFormatExperienceEntry(exp) ==
    Get(exp, "position", Get(exp, "job_title", "Unknown Position")) \o " at "
    \o Get(exp, "company", Get(exp, "employer", "Unknown Company"))

simple_format_experience(experience_list) ==
    IF Falsy(experience_list) THEN "No work experience available"
    ELSE Join([i \in DOMAIN experience_list.records |->
                  SimpleFormatExperienceEntry(experience_list.records[i])], "; ")

SimpleTrainingEntry(title, type_info) ==
    title \o (IF type_info # "" THEN " (" \o type_info \o ")" ELSE "")

SimpleFormatTrainingEntry(train) ==
    SimpleTrainingEntry(Get(train, "title", Get(train, "course_title",
                                                "Unknown Training")),
                        Get(train, "type", ""))

simple_format_training(training_list) ==
    IF Falsy(training_list) THEN "No training information available"
    ELSE Join([i \in DOMAIN training_list.records |->
                  SimpleFormatTrainingEntry(training_list.records[i])], "; ")

Formatters == {"format_education", "format_experience", "format_training"}
Scripts == {"debug_semantic_text", "simple_pds_semantic_test"}

Format(script, formatter, list) ==
    IF script = "debug_semantic_text"
    THEN CASE formatter = "format_education" -> format_education(list)
           [] formatter = "format_experience" -> format_experience(list)
           [] formatter = "format_training" -> format_training(list)
    ELSE CASE formatter = "format_education" -> simple_format_education(list)
           [] formatter = "format_experience" -> simple_format_experience(list)
           [] formatter = "format_training" -> simple_format_training(list)

\* what renders one record, and the optional sub-field it may leave out
Renderers ==
    {"_calculate_education_relevance", "_calculate_experience_relevance",
     "_calculate_training_relevance", "format_education", "format_training"}

OptionalField(renderer) ==
    CASE renderer = "_calculate_education_relevance" -> "honors"
      [] renderer = "_calculate_experience_relevance" -> "grade"
      [] renderer = "_calculate_training_relevance" -> "type"
      [] renderer = "format_education" -> "degree_course"
      [] renderer = "format_training" -> "type"

Render(renderer, rec) ==
    CASE renderer = "_calculate_education_relevance" ->
            Join(RelevanceEducationPds(rec), " | ")
      [] renderer = "_calculate_experience_relevance" ->
            Join(RelevanceExperiencePds(rec), " | ")
      [] renderer = "_calculate_training_relevance" ->
            Join(RelevanceTrainingPds(rec), " | ")
      [] renderer = "format_education" -> FormatEducationEntry(rec)
      [] renderer = "format_training" -> FormatTrainingEntry(rec)

----------------------------------------------------------------------------
(* calculate_detailed_semantic_score: returns [details, e]; the scores of   *)
(* the record are thousandths, error is "" when the record has no 'error'   *)

ErrorDetails(msg) ==
    [overall_score |-> 0, education_relevance |-> 0, experience_relevance |-> 0,
     training_relevance |-> 0, error |-> msg]

\* DetailedScores returning the similarities as they are, in millionths
DetailedScoresUnscaled(overall, edu, exp, trn) ==
    [details |->
         [overall_score |-> overall,
          education_relevance |-> edu.score,
          experience_relevance |-> exp.score,
          training_relevance |-> trn.score,
          error |-> ""],
     e |-> trn.e]

\* lines 493-500, once the four similarities are known
DetailedScores(overall, edu, exp, trn) ==
    [details |->
         [overall_score |-> RoundDiv(overall, 1000),
          education_relevance |-> RoundDiv(edu.score, 1000),
          experience_relevance |-> RoundDiv(exp.score, 1000),
          training_relevance |-> RoundDiv(trn.score, 1000),
          error |-> ""],
     e |-> trn.e]

DetailedAfterExperience(overall, edu, exp, candidate_data, job_data) ==
    DetailedScores(overall, edu, exp,
                   calculate_training_relevance(candidate_data, job_data, exp.e))

DetailedAfterEducation(overall, edu, candidate_data, job_data) ==
    DetailedAfterExperience(
        overall, edu,
        calculate_experience_relevance(candidate_data, job_data, edu.e),
        candidate_data, job_data)

\* lines 476-491: c and j are the profile and the job embedding
DetailedWithEmbeddings(c, j, candidate_data, job_data) ==
    IF c.vec = NoVector \/ j.vec = NoVector
    THEN [details |-> ErrorDetails("Failed to generate embeddings"), e |-> j.e]
    ELSE DetailedAfterEducation(
             calculate_semantic_similarity(c.vec, j.vec),
             calculate_education_relevance(candidate_data, job_data, j.e),
             candidate_data, job_data)

DetailedWithCandidate(c, candidate_data, job_data) ==
    DetailedWithEmbeddings(c, encode_job_requirements(job_data, c.e),
                           candidate_data, job_data)

calculate_detailed_semantic_score(candidate_data, job_data, e) ==
    IF ~is_available
    THEN [details |-> ErrorDetails("Semantic engine not available"), e |-> e]
    ELSE DetailedWithCandidate(encode_candidate_profile(candidate_data, e),
                               candidate_data, job_data)

----------------------------------------------------------------------------
(* EnhancedUniversityAssessmentEngine *)

WeightKeys ==
    {"education_relevance", "experience_relevance", "training_relevance",
     "overall_quality_bonus"}

DefaultWeights ==
    [k \in WeightKeys |->
        CASE k = "education_relevance" -> 35
          [] k = "experience_relevance" -> 45
          [] k = "training_relevance" -> 15
          [] k = "overall_quality_bonus" -> 5]

InitialStats ==
    [total_assessments |-> 0, semantic_assessments |-> 0,
     traditional_assessments |-> 0, fallback_to_traditional |-> 0]

\* RawSemanticScore without the quality bonus
RawWithoutBonus(edu, exp, trn, overall, w) ==
    edu * w["education_relevance"] + exp * w["experience_relevance"]
    + trn * w["training_relevance"]

\* (weighted_score + quality_bonus) * 100 in thousandths of a point: the
\* category scores are thousandths and the weights hundredths
RawSemanticScore(edu, exp, trn, overall, w) ==
    edu * w["education_relevance"] + exp * w["experience_relevance"]
    + trn * w["training_relevance"] + overall * w["overall_quality_bonus"]

\* final_score of _calculate_semantic_assessment, in tenths of a point:
\* round(max(0, min(100, raw)), 1)
FinalSemanticScore(edu, exp, trn, overall, w) ==
    RoundDiv(Max(0, Min(100000, RawSemanticScore(edu, exp, trn, overall, w))), 100)

\* lines 177-228: d is what calculate_detailed_semantic_score returned
BlendDetails(d, w) ==
    IF d.details.error # ""
    THEN [raised |-> TRUE, error |-> d.details.error, final_score |-> None,
          breakdown |-> <<>>, e |-> d.e]
    ELSE [raised |-> FALSE, error |-> "",
          final_score |->
              FinalSemanticScore(d.details.education_relevance,
                                 d.details.experience_relevance,
                                 d.details.training_relevance,
                                 d.details.overall_score, w),
          breakdown |->
              <<[education_relevance |-> d.details.education_relevance,
                 experience_relevance |-> d.details.experience_relevance,
                 training_relevance |-> d.details.training_relevance,
                 overall_similarity |-> d.details.overall_score,
                 weights_used |-> w]>>,
          e |-> d.e]

\* returns [raised, error, final_score, breakdown, e]
calculate_semantic_assessment(candidate_data, job_data, w, e) ==
    BlendDetails(calculate_detailed_semantic_score(candidate_data, job_data, e), w)

(* The traditional engine, UniversityAssessmentEngine.assess_candidate, is   *)
(* an external collaborator: each call either raises or returns a total.    *)
TradScores == {0, 720}
TradOutcomes ==
    {[ok |-> FALSE, final_score |-> None]}
    \cup {[ok |-> TRUE, final_score |-> t] : t \in TradScores}

NotCalled == [ok |-> FALSE, final_score |-> None]

InitialResult(candidate_data, job_data) ==
    [candidate_id |-> candidate_data.id,
     job_id |-> job_data.id,
     semantic_score |-> None,
     traditional_score |-> None,
     recommended_score |-> None,
     assessment_method |-> "hybrid",
     semantic_breakdown |-> <<>>,
     errors |-> <<>>]

(* One call in progress: the result under construction, the stats, the       *)
(* engine, the local include_traditional, how often each scorer was          *)
(* attempted and what the semantic scorer returned.                          *)
Call(result, stats, e, include_traditional) ==
    [result |-> result, stats |-> stats, e |-> e,
     include_traditional |-> include_traditional,
     semantic_attempts |-> 0, semantic_ok |-> FALSE, semantic_returned |-> None,
     traditional_attempts |-> 0, traditional_ok |-> FALSE]

\* RecordSemantic giving up on the traditional scorer when the semantic one raised
RecordSemanticAborts(c, r) ==
    IF ~r.raised
    THEN [c EXCEPT
            !.result = [@ EXCEPT !.semantic_score = r.final_score,
                                 !.semantic_breakdown = r.breakdown,
                                 !.recommended_score = r.final_score,
                                 !.assessment_method = "semantic"],
            !.stats = [@ EXCEPT !.semantic_assessments = @ + 1],
            !.e = r.e,
            !.semantic_attempts = @ + 1,
            !.semantic_ok = TRUE,
            !.semantic_returned = r.final_score]
    ELSE [c EXCEPT
            !.result = [@ EXCEPT
                !.errors = Append(@, "Semantic assessment failed: " \o r.error)],
            !.e = r.e,
            !.include_traditional = FALSE,
            !.semantic_attempts = @ + 1]

\* RecordSemantic counting a fallback for every attempt, successful or not
RecordSemanticCountsBoth(c, r) ==
    IF ~r.raised
    THEN [c EXCEPT
            !.result = [@ EXCEPT !.semantic_score = r.final_score,
                                 !.semantic_breakdown = r.breakdown,
                                 !.recommended_score = r.final_score,
                                 !.assessment_method = "semantic"],
            !.stats = [@ EXCEPT !.semantic_assessments = @ + 1,
                                !.fallback_to_traditional = @ + 1],
            !.e = r.e,
            !.semantic_attempts = @ + 1,
            !.semantic_ok = TRUE,
            !.semantic_returned = r.final_score]
    ELSE [c EXCEPT
            !.result = [@ EXCEPT
                !.errors = Append(@, "Semantic assessment failed: " \o r.error)],
            !.stats = [@ EXCEPT !.fallback_to_traditional = @ + 1],
            !.e = r.e,
            !.semantic_attempts = @ + 1]

\* lines 98-114: r is what _calculate_semantic_assessment returned or raised
RecordSemantic(c, r) ==
    IF ~r.raised
    THEN [c EXCEPT
            !.result = [@ EXCEPT !.semantic_score = r.final_score,
                                 !.semantic_breakdown = r.breakdown,
                                 !.recommended_score = r.final_score,
                                 !.assessment_method = "semantic"],
            !.stats = [@ EXCEPT !.semantic_assessments = @ + 1],
            !.e = r.e,
            !.semantic_attempts = @ + 1,
            !.semantic_ok = TRUE,
            !.semantic_returned = r.final_score]
    ELSE [c EXCEPT
            !.result = [@ EXCEPT
                !.errors = Append(@, "Semantic assessment failed: " \o r.error),
                !.assessment_method =
                    IF c.include_traditional THEN "traditional_fallback" ELSE @],
            !.stats = [@ EXCEPT !.fallback_to_traditional =
                                    IF c.include_traditional THEN @ + 1 ELSE @],
            !.e = r.e,
            !.include_traditional = IF c.include_traditional THEN TRUE ELSE @,
            !.semantic_attempts = @ + 1]

\* SemanticPart without the include_semantic test of line 95
SemanticPartUnconditional(c, candidate_data, job_data, include_semantic, w) ==
    IF ~is_available THEN c
    ELSE RecordSemantic(c, calculate_semantic_assessment(candidate_data, job_data,
                                                         w, c.e))

\* lines 94-114: the semantic scores, the default method
SemanticPart(c, candidate_data, job_data, include_semantic, w) ==
    IF ~(include_semantic /\ is_available) THEN c
    ELSE RecordSemantic(c, calculate_semantic_assessment(candidate_data, job_data,
                                                         w, c.e))

\* TraditionalPart without the 'is None' test of line 130
TraditionalPartOverrides(c, trad) ==
    IF ~c.include_traditional THEN c
    ELSE IF trad.ok
    THEN [c EXCEPT
            !.result = [@ EXCEPT !.traditional_score = trad.final_score,
                                 !.recommended_score = trad.final_score,
                                 !.assessment_method = "traditional"],
            !.stats = [@ EXCEPT !.traditional_assessments = @ + 1],
            !.traditional_attempts = @ + 1,
            !.traditional_ok = TRUE]
    ELSE [c EXCEPT
            !.result = [@ EXCEPT
                !.errors = Append(@, "Traditional assessment failed: error")],
            !.traditional_attempts = @ + 1]

\* lines 116-139: the traditional scores, for comparison or fallback
TraditionalPart(c, trad) ==
    IF ~c.include_traditional THEN c
    ELSE IF trad.ok
    THEN [c EXCEPT
            !.result = [@ EXCEPT
                !.traditional_score = trad.final_score,
                !.recommended_score =
                    IF @ = None THEN trad.final_score ELSE @,
                !.assessment_method =
                    IF c.result.recommended_score = None THEN "traditional" ELSE @],
            !.stats = [@ EXCEPT !.traditional_assessments = @ + 1],
            !.traditional_attempts = @ + 1,
            !.traditional_ok = TRUE]
    ELSE [c EXCEPT
            !.result = [@ EXCEPT
                !.errors = Append(@, "Traditional assessment failed: error")],
            !.traditional_attempts = @ + 1]

\* FinishPart marking the result 'failed' but leaving recommended_score None
FinishPartWithoutScore(c) ==
    [c EXCEPT
        !.result = IF c.result.recommended_score = None
                   THEN [c.result EXCEPT
                            !.assessment_method = "failed",
                            !.errors = Append(@, "No assessment method succeeded")]
                   ELSE c.result,
        !.stats = [@ EXCEPT !.total_assessments = @ + 1]]

\* FinishPart without the final check of lines 152-155
FinishPartWithoutDefault(c) ==
    [c EXCEPT !.stats = [@ EXCEPT !.total_assessments = @ + 1]]

\* lines 141-159: make sure there is a recommended score, count the call
FinishPart(c) ==
    LET r == c.result IN
    [c EXCEPT
        !.result = IF r.recommended_score = None
                   THEN [r EXCEPT !.recommended_score = 0,
                                  !.assessment_method = "failed",
                                  !.errors = Append(@, "No assessment method succeeded")]
                   ELSE r,
        !.stats = [@ EXCEPT !.total_assessments = @ + 1]]

\* returns the finished call
assess_candidate_enhanced(candidate_data, job_data, include_semantic, include_traditional, trad, w, stats, e) ==
    FinishPart(
        TraditionalPart(
            SemanticPart(Call(InitialResult(candidate_data, job_data), stats, e,
                              include_traditional),
                         candidate_data, job_data, include_semantic, w),
            trad))


\* update_semantic_weights: returns [raised, warned, weights]
required_keys ==
    <<"education_relevance", "experience_relevance", "skills_relevance",
      "overall_quality_bonus">>

\* update_semantic_weights raising on a total outside the band instead of warning
update_semantic_weights_rejecting(new_weights, w) ==
    IF \/ \E i \in 1..Len(required_keys) : required_keys[i] \notin DOMAIN new_weights
       \/ new_weights[required_keys[1]] + new_weights[required_keys[2]]
          + new_weights[required_keys[3]] \notin 80..120
    THEN [raised |-> TRUE, warned |-> FALSE, weights |-> w]
    ELSE [raised |-> FALSE, warned |-> FALSE,
          weights |-> [k \in DOMAIN w \cup DOMAIN new_weights |->
                          IF k \in DOMAIN new_weights THEN new_weights[k] ELSE w[k]]]

update_semantic_weights(new_weights, w) ==
    IF \E i \in 1..Len(required_keys) : required_keys[i] \notin DOMAIN new_weights
    THEN [raised |-> TRUE, warned |-> FALSE, weights |-> w]       \* ValueError
    ELSE
    LET total_weight == new_weights[required_keys[1]] + new_weights[required_keys[2]]
                        + new_weights[required_keys[3]]
    IN  [raised |-> FALSE,
         warned |-> total_weight < 80 \/ total_weight > 120,
         weights |-> [k \in DOMAIN w \cup DOMAIN new_weights |->
                         IF k \in DOMAIN new_weights THEN new_weights[k] ELSE w[k]]]

Weights(edu, exp, trn, bonus) ==
    [k \in WeightKeys |->
        CASE k = "education_relevance" -> edu
          [] k = "experience_relevance" -> exp
          [] k = "training_relevance" -> trn
          [] k = "overall_quality_bonus" -> bonus]

WithSkills(nw, skills) ==
    [k \in DOMAIN nw \cup {"skills_relevance"} |->
        IF k = "skills_relevance" THEN skills ELSE nw[k]]

\* the weight sets an operator hands to update_semantic_weights
NewWeightSets ==
    {Weights(50, 30, 10, 10),                  \* the four weights the scorer uses
     WithSkills(Weights(50, 30, 10, 10), 15),  \* with the legacy skills weight
     WithSkills(Weights(10, 10, 60, 0), 10),   \* primary weights far from 1.0
     WithSkills(Weights(-10, 45, 15, 5), 65)}  \* a negative weight

\* compare_scoring_methods, after its call of assess_candidate_enhanced:
\* returns [raised, comparison]
CompareResult(assessment) ==
    LET semantic_score == assessment.semantic_score
        traditional_score == assessment.traditional_score
    IN  IF semantic_score = None \/ traditional_score = None
        THEN [raised |-> TRUE, comparison |-> <<>>]      \* None - x: TypeError
        ELSE
        LET score_difference == semantic_score - traditional_score IN
        [raised |-> FALSE,
         comparison |->
            <<[candidate_id |-> assessment.candidate_id,
               job_id |-> assessment.job_id,
               semantic_score |-> semantic_score,
               traditional_score |-> traditional_score,
               score_difference |-> score_difference,
               relative_difference_percent |->
                   RoundDivSigned(score_difference * 1000, Max(traditional_score, 10)),
               difference_category |->
                   IF Abs(score_difference) < 50 THEN "similar"
                   ELSE IF score_difference > 100 THEN "semantic_higher"
                   ELSE IF score_difference < -100 THEN "traditional_higher"
                   ELSE "moderate_difference",
               semantic_breakdown |-> assessment.semantic_breakdown]>>]

----------------------------------------------------------------------------
(* The state machine *)

NoBatch ==
    [active |-> FALSE, done |-> FALSE, candidates |-> <<>>, job_data |-> ProfessorJob,
     include_semantic |-> FALSE, assessed |-> <<>>, results |-> <<>>,
     job_cached_at_start |-> FALSE, job_encodes |-> 0, job_failures |-> 0]

\* no call of assess_candidate_enhanced is running in a thread
NoThreads == [t \in 1..NumThreads |-> [pc |-> "idle"]]

Init ==
    /\ deps_available \in BOOLEAN
    /\ model_loaded \in BOOLEAN
    /\ (~deps_available => ~model_loaded)
    /\ encode_raises = FALSE
    /\ job_embeddings_cache = EmptyCache
    /\ candidate_embeddings_cache = EmptyCache
    /\ job_file = NoFile
    /\ candidate_file = NoFile
    /\ semantic_weights = DefaultWeights
    /\ assessment_stats = InitialStats
    /\ batch = NoBatch
    /\ threads = NoThreads
    /\ completed_calls = 0
    /\ last = [op |-> "none"]

\* what a finished call of assess_candidate_enhanced leaves in last
AssessRecord(via, candidate_data, job_data, include_semantic, include_traditional, trad, c) ==
    [op |-> "assess", via |-> via, raised |-> FALSE,
     candidate_data |-> candidate_data, job_data |-> job_data,
     include_semantic |-> include_semantic,
     include_traditional |-> include_traditional,
     trad |-> IF include_traditional THEN trad ELSE NotCalled, result |-> c.result,
     semantic_attempts |-> c.semantic_attempts, semantic_ok |-> c.semantic_ok,
     semantic_returned |-> c.semantic_returned,
     traditional_attempts |-> c.traditional_attempts,
     traditional_ok |-> c.traditional_ok,
     encoder_up |-> model_loaded /\ ~encode_raises,
     weights |-> semantic_weights]

StoreEngine(e) ==
    /\ job_embeddings_cache' = e.jc
    /\ candidate_embeddings_cache' = e.cc
    /\ job_file' = e.jf
    /\ candidate_file' = e.cf

\* how often text was handed to the embedding library
RECURSIVE Count(_, _)
Count(calls, text) ==
    IF Len(calls) = 0 THEN 0
    ELSE (IF Head(calls) = text THEN 1 ELSE 0) + Count(Tail(calls), text)

\* the embedding library starts or stops raising on encode
EncoderFault ==
    /\ deps_available /\ model_loaded
    /\ encode_raises' = ~encode_raises
    /\ UNCHANGED <<deps_available, model_loaded, job_embeddings_cache,
                   candidate_embeddings_cache, job_file, candidate_file,
                   semantic_weights, assessment_stats, batch, last, completed_calls,
                   threads>>

\* the effect of a finished call c of assess_candidate_enhanced on the engine
Finished(c) ==
    /\ StoreEngine(c.e)
    /\ assessment_stats' = c.stats
    /\ completed_calls' = completed_calls + 1

AssessDone(c, candidate_data, job_data, include_semantic, include_traditional, trad) ==
    /\ Finished(c)
    /\ last' = AssessRecord("direct", candidate_data, job_data,
                            include_semantic, include_traditional, trad, c)

AssessCandidateEnhanced ==
    /\ ~batch.active
    /\ assessment_stats.total_assessments < MaxAssessments
    /\ \E candidate_data \in Candidates, job_data \in Jobs,
          include_semantic \in BOOLEAN, include_traditional \in BOOLEAN,
          trad \in TradOutcomes :
        AssessDone(assess_candidate_enhanced(candidate_data, job_data,
                                             include_semantic, include_traditional,
                                             trad, semantic_weights,
                                             assessment_stats, CurrentEngine),
                   candidate_data, job_data, include_semantic, include_traditional,
                   trad)
    /\ UNCHANGED <<deps_available, model_loaded, encode_raises, semantic_weights,
                   batch, threads>>

CompareReturned(r, a) ==
    last' = [op |-> "compare", raised |-> r.raised, comparison |-> r.comparison,
             assessment |-> a]

CompareDone(c, candidate_data, job_data, trad) ==
    /\ Finished(c)
    /\ CompareReturned(CompareResult(c.result),
                       AssessRecord("compare", candidate_data, job_data,
                                    TRUE, TRUE, trad, c))

CompareScoringMethods ==
    /\ ~batch.active
    /\ assessment_stats.total_assessments < MaxAssessments
    /\ \E candidate_data \in Candidates, job_data \in Jobs, trad \in TradOutcomes :
        CompareDone(assess_candidate_enhanced(candidate_data, job_data, TRUE, TRUE,
                                              trad, semantic_weights,
                                              assessment_stats, CurrentEngine),
                    candidate_data, job_data, trad)
    /\ UNCHANGED <<deps_available, model_loaded, encode_raises, semantic_weights,
                   batch, threads>>

UpdateSemanticWeights ==
    /\ ~batch.active
    /\ \E new_weights \in NewWeightSets :
        LET r == update_semantic_weights(new_weights, semantic_weights) IN
        /\ semantic_weights' = r.weights
        /\ last' = [op |-> "update_weights", raised |-> r.raised, warned |-> r.warned,
                    new_weights |-> new_weights]
    /\ UNCHANGED <<deps_available, model_loaded, encode_raises, job_embeddings_cache,
                   candidate_embeddings_cache, job_file, candidate_file,
                   assessment_stats, batch, completed_calls, threads>>


\* the candidate lists handed to batch_assess_candidates
RECURSIVE SeqsUpTo(_, _)
SeqsUpTo(S, n) ==
    IF n = 0 THEN {<<>>}
    ELSE LET shorter == SeqsUpTo(S, n - 1) IN
         shorter \cup {Append(q, x) : q \in shorter, x \in S}

JobEncodes(e, job_data) == Count(e.calls, JobText(job_data))

JobCached(job_data) ==
    generate_cache_key(JobText(job_data), "job_" \o job_data.id)
        \in DOMAIN job_embeddings_cache

BatchStarted(e, candidates_data, job_data, include_semantic) ==
    /\ StoreEngine(e)
    /\ batch' = [active |-> TRUE, done |-> FALSE,
                 candidates |-> candidates_data, job_data |-> job_data,
                 include_semantic |-> include_semantic,
                 assessed |-> <<>>, results |-> <<>>,
                 job_cached_at_start |-> JobCached(job_data),
                 job_encodes |-> JobEncodes(e, job_data),
                 job_failures |-> IF encode_raises THEN JobEncodes(e, job_data) ELSE 0]

\* batch_assess_candidates, lines 243-256: the job embedding is pre-computed
BatchStart ==
    /\ ~batch.active
    /\ \E candidates_data \in SeqsUpTo(Candidates, MaxBatch), job_data \in Jobs,
          include_semantic \in BOOLEAN :
        /\ assessment_stats.total_assessments + Len(candidates_data) <= MaxAssessments
        /\ BatchStarted(IF include_semantic /\ is_available
                        THEN encode_job_requirements(job_data, CurrentEngine).e
                        ELSE CurrentEngine,
                        candidates_data, job_data, include_semantic)
    /\ last' = [op |-> "batch_start"]
    /\ UNCHANGED <<deps_available, model_loaded, encode_raises, semantic_weights,
                   assessment_stats, completed_calls, threads>>

\* BatchAppend leaving a failed assessment out of the results
BatchAppendDropsFailed(results, c) ==
    IF c.result.assessment_method = "failed" THEN results ELSE Append(results, c.result)

\* lines 261-266: the assessment is appended to the results
BatchAppend(results, c) == Append(results, c.result)

BatchStepDone(c, candidate_data, trad) ==
    /\ Finished(c)
    /\ batch' = [batch EXCEPT
                    !.assessed = Append(@, [semantic_ok |-> c.semantic_ok,
                                            traditional_ok |-> c.traditional_ok,
                                            traditional_attempts |->
                                                c.traditional_attempts]),
                    !.results = BatchAppend(@, c),
                    !.job_encodes = @ + JobEncodes(c.e, batch.job_data),
                    !.job_failures = @ + IF encode_raises
                                         THEN JobEncodes(c.e, batch.job_data)
                                         ELSE 0]
    /\ last' = AssessRecord("batch", candidate_data, batch.job_data,
                            batch.include_semantic, TRUE, trad, c)

NextCandidate == batch.candidates[Len(batch.assessed) + 1]

(* lines 258-281: one turn of the loop.  The except branch of the loop is    *)
(* not taken: with dict candidates and a dict job nothing in                 *)
(* assess_candidate_enhanced raises outside its own try blocks.              *)
BatchStep ==
    /\ batch.active
    /\ Len(batch.assessed) < Len(batch.candidates)
    /\ \E trad \in TradOutcomes :
        BatchStepDone(assess_candidate_enhanced(NextCandidate, batch.job_data,
                                                batch.include_semantic, TRUE, trad,
                                                semantic_weights, assessment_stats,
                                                CurrentEngine),
                      NextCandidate, trad)
    /\ UNCHANGED <<deps_available, model_loaded, encode_raises, semantic_weights,
                   threads>>

\* lines 283-284: the results are returned
BatchReturn ==
    /\ batch.active
    /\ Len(batch.assessed) = Len(batch.candidates)
    /\ batch' = [batch EXCEPT !.active = FALSE, !.done = TRUE]
    /\ last' = [op |-> "batch", raised |-> FALSE]
    /\ UNCHANGED <<deps_available, model_loaded, encode_raises, job_embeddings_cache,
                   candidate_embeddings_cache, job_file, candidate_file,
                   semantic_weights, assessment_stats, completed_calls, threads>>

Next ==
    \/ AssessCandidateEnhanced
    \/ CompareScoringMethods
    \/ UpdateSemanticWeights
    \/ BatchStart
    \/ BatchStep
    \/ BatchReturn
    \/ EncoderFault

Spec == Init /\ [][Next]_vars

\* the engine driven by single-candidate calls only
NextSingle ==
    \/ AssessCandidateEnhanced
    \/ CompareScoringMethods
    \/ UpdateSemanticWeights
    \/ EncoderFault

SpecSingle == Init /\ [][NextSingle]_vars

\* the engine driven by batch runs only
NextBatch ==
    \/ BatchStart
    \/ BatchStep
    \/ BatchReturn
    \/ EncoderFault

SpecBatch == Init /\ [][NextBatch]_vars

(* The semantic engine on its own: its public operations called directly.    *)
(* last keeps what the call was given, what it returned, the texts it handed *)
(* to the embedding library and the caches as they were before the call.     *)

RECURSIVE Repeat(_, _)
Repeat(ch, n) ==
    IF n = 0 THEN ""
    ELSE IF n % 2 = 0 THEN Repeat(ch \o ch, n \div 2)
    ELSE ch \o Repeat(ch \o ch, n \div 2)

\* a text one character longer than the encoder's limit
LongText == Repeat("x", max_sequence_length + 1)

EngineTexts == {"PhD from MIT", LongText}
EngineContexts == {"", "education"}

EncodeTextDone(r, text, context, use_cache) ==
    /\ StoreEngine(r.e)
    /\ last' = [op |-> "encode_text", text |-> text, context |-> context,
                use_cache |-> use_cache, vec |-> r.vec,
                encoder_calls |-> r.e.calls, encode_raises |-> encode_raises,
                cache_before |-> candidate_embeddings_cache,
                job_cache_before |-> job_embeddings_cache]

EncodeText ==
    /\ \E text \in EngineTexts, context \in EngineContexts, use_cache \in BOOLEAN :
        EncodeTextDone(encode_text(text, context, use_cache, CurrentEngine),
                       text, context, use_cache)
    /\ UNCHANGED <<deps_available, model_loaded, encode_raises, semantic_weights,
                   assessment_stats, batch, completed_calls, threads>>

EncodeProfileDone(r, candidate_data) ==
    /\ StoreEngine(r.e)
    /\ last' = [op |-> "encode_candidate_profile", candidate_data |-> candidate_data,
                vec |-> r.vec, encoder_calls |-> r.e.calls,
                encode_raises |-> encode_raises]

EncodeCandidateProfile ==
    /\ \E candidate_data \in Candidates :
        EncodeProfileDone(encode_candidate_profile(candidate_data, CurrentEngine),
                          candidate_data)
    /\ UNCHANGED <<deps_available, model_loaded, encode_raises, semantic_weights,
                   assessment_stats, batch, completed_calls, threads>>

EncodeJobDone(r, job_data) ==
    /\ StoreEngine(r.e)
    /\ last' = [op |-> "encode_job_requirements", job_data |-> job_data,
                vec |-> r.vec, encoder_calls |-> r.e.calls,
                encode_raises |-> encode_raises]

EncodeJobRequirements ==
    /\ \E job_data \in Jobs :
        EncodeJobDone(encode_job_requirements(job_data, CurrentEngine), job_data)
    /\ UNCHANGED <<deps_available, model_loaded, encode_raises, semantic_weights,
                   assessment_stats, batch, completed_calls, threads>>

\* the record of the call before, when it was the same call with the same input
PreviousDetails(candidate_data, job_data) ==
    IF last.op = "detailed" /\ last.candidate_data = candidate_data
       /\ last.job_data = job_data
    THEN <<last.details>> ELSE <<>>

DetailedDone(r, candidate_data, job_data) ==
    /\ StoreEngine(r.e)
    /\ last' = [op |-> "detailed", candidate_data |-> candidate_data,
                job_data |-> job_data, details |-> r.details,
                encoder_calls |-> r.e.calls, encode_raises |-> encode_raises,
                previous |-> PreviousDetails(candidate_data, job_data)]

CalculateDetailedSemanticScore ==
    /\ \E candidate_data \in Candidates, job_data \in Jobs :
        DetailedDone(calculate_detailed_semantic_score(candidate_data, job_data,
                                                       CurrentEngine),
                     candidate_data, job_data)
    /\ UNCHANGED <<deps_available, model_loaded, encode_raises, semantic_weights,
                   assessment_stats, batch, completed_calls, threads>>

NextEngine ==
    \/ EncodeText
    \/ EncodeCandidateProfile
    \/ EncodeJobRequirements
    \/ CalculateDetailedSemanticScore
    \/ EncoderFault

SpecEngine == Init /\ [][NextEngine]_vars

(* The migration script that adds the semantic columns to the candidates    *)
(* table.  A database is a file (SQLite) or a server (PostgreSQL): whether  *)
(* it exists, whether it has a candidates table, and the semantic columns   *)
(* of that table.                                                           *)

semantic_fields == {"semantic_score", "semantic_breakdown", "semantic_updated"}

\* the order in which the ALTER TABLE statements add the columns
FieldOrder == <<"semantic_score", "semantic_breakdown", "semantic_updated">>

Database(has_table, columns) ==
    [exists |-> TRUE, has_table |-> has_table, columns |-> columns]
NoDatabase == [exists |-> FALSE, has_table |-> FALSE, columns |-> {}]
Databases ==
    {NoDatabase, Database(FALSE, {})}
    \cup {Database(TRUE, columns) : columns \in SUBSET semantic_fields}

MissingFields(db) == semantic_fields \ db.columns

\* _check_sqlite_migration_needed on the database found at the application's
\* paths: FileNotFoundError when there is none; PRAGMA table_info of a table
\* that does not exist lists no column
check_sqlite_migration_needed(db) ==
    IF ~db.exists THEN [raised |-> TRUE, needed |-> FALSE]
    ELSE [raised |-> FALSE, needed |-> MissingFields(db) # {}]

\* _check_postgresql_migration_needed: get_connection may raise
check_postgresql_migration_needed(db, connection_fails) ==
    IF connection_fails THEN [raised |-> TRUE, needed |-> FALSE]
    ELSE [raised |-> FALSE, needed |-> MissingFields(db) # {}]

CheckOutcome(m) ==
    IF m.use_sqlite THEN check_sqlite_migration_needed(m.app_db)
    ELSE check_postgresql_migration_needed(m.app_db, m.connection_fails)

\* check_migration_needed: an exception of the check is logged and answered False
check_migration_needed(m) ==
    IF CheckOutcome(m).raised THEN FALSE ELSE CheckOutcome(m).needed

\* the columns before the first one that the table already has
RECURSIVE AddedBeforeDuplicate(_, _)
AddedBeforeDuplicate(columns, i) ==
    IF i > Len(FieldOrder) \/ FieldOrder[i] \in columns THEN {}
    ELSE {FieldOrder[i]} \cup AddedBeforeDuplicate(columns, i + 1)

\* _migrate_sqlite on the file resume_screening.db next to the script, which
\* sqlite3.connect creates when it is not there: ALTER TABLE ... ADD COLUMN
\* fails for a missing table and for a column that exists; whether the
\* columns added before the failure survive conn.rollback() depends on the
\* transaction handling of the sqlite3 module
migrate_sqlite(db, ddl_transactional) ==
    IF ~db.has_table
    THEN [ok |-> FALSE, db |-> Database(FALSE, {})]
    ELSE IF MissingFields(db) = semantic_fields
    THEN [ok |-> TRUE, db |-> Database(TRUE, semantic_fields)]
    ELSE [ok |-> FALSE,
          db |-> IF ddl_transactional THEN db
                 ELSE Database(TRUE, db.columns \cup AddedBeforeDuplicate(db.columns, 1))]

\* _migrate_postgresql: ADD COLUMN IF NOT EXISTS, in one transaction
migrate_postgresql(db, connection_fails) ==
    IF connection_fails THEN [ok |-> FALSE, raised |-> TRUE, db |-> db]
    ELSE IF ~db.has_table THEN [ok |-> FALSE, raised |-> FALSE, db |-> db]
    ELSE [ok |-> TRUE, raised |-> FALSE, db |-> Database(TRUE, semantic_fields)]

MigrationReturn(m, returned, reported, app_db, script_db) ==
    [op |-> "migration", use_sqlite |-> m.use_sqlite,
     check_failed |-> CheckOutcome(m).raised,
     returned |-> returned, reported |-> reported,
     app_db |-> app_db, script_db |-> script_db]

\* lines 108-124 for SQLite: the file migrated is the one next to the script
RunSqlite(m, r) ==
    IF ~r.ok THEN MigrationReturn(m, FALSE, "failed", m.app_db, r.db)
    ELSE IF m.record_fails THEN MigrationReturn(m, FALSE, "error", m.app_db, r.db)
    ELSE MigrationReturn(m, TRUE, "completed", m.app_db, r.db)

\* lines 108-124 for PostgreSQL
RunPostgresql(m, r) ==
    IF r.raised THEN MigrationReturn(m, FALSE, "error", r.db, m.script_db)
    ELSE IF ~r.ok THEN MigrationReturn(m, FALSE, "failed", r.db, m.script_db)
    ELSE IF m.record_fails THEN MigrationReturn(m, FALSE, "error", r.db, m.script_db)
    ELSE MigrationReturn(m, TRUE, "completed", r.db, m.script_db)

run_migration(m) ==
    IF ~check_migration_needed(m)
    THEN MigrationReturn(m, TRUE, "not_needed", m.app_db, m.script_db)
    ELSE IF m.use_sqlite
    THEN RunSqlite(m, migrate_sqlite(m.script_db, m.ddl_transactional))
    ELSE RunPostgresql(m, migrate_postgresql(m.app_db, m.connection_fails))

SqliteSetups ==
    [op : {"database"}, use_sqlite : {TRUE}, app_db : Databases,
     script_db : Databases, connection_fails : {FALSE},
     record_fails : BOOLEAN, ddl_transactional : BOOLEAN]

PostgresqlSetups ==
    [op : {"database"}, use_sqlite : {FALSE}, app_db : Databases \ {NoDatabase},
     script_db : {NoDatabase}, connection_fails : BOOLEAN,
     record_fails : BOOLEAN, ddl_transactional : {TRUE}]

InitMigration ==
    /\ deps_available = TRUE
    /\ model_loaded = TRUE
    /\ encode_raises = FALSE
    /\ job_embeddings_cache = EmptyCache
    /\ candidate_embeddings_cache = EmptyCache
    /\ job_file = NoFile
    /\ candidate_file = NoFile
    /\ semantic_weights = DefaultWeights
    /\ assessment_stats = InitialStats
    /\ batch = NoBatch
    /\ threads = NoThreads
    /\ completed_calls = 0
    /\ last \in SqliteSetups \cup PostgresqlSetups

RunMigration ==
    /\ last.op = "database"
    /\ last' = run_migration(last)
    /\ UNCHANGED <<deps_available, model_loaded, encode_raises, job_embeddings_cache,
                   candidate_embeddings_cache, job_file, candidate_file,
                   semantic_weights, assessment_stats, batch, completed_calls, threads>>

SpecMigration == InitMigration /\ [][RunMigration]_vars

(* encode_text on texts and contexts that contain the '_' with which the    *)
(* cache key is put together.                                               *)

SeparatorTexts == {"PhD", "PhD_job"}
SeparatorContexts == {"1", "job_1"}

EncodeTextSeparator ==
    /\ \E text \in SeparatorTexts, context \in SeparatorContexts,
          use_cache \in BOOLEAN :
        EncodeTextDone(encode_text(text, context, use_cache, CurrentEngine),
                       text, context, use_cache)
    /\ UNCHANGED <<deps_available, model_loaded, encode_raises, semantic_weights,
                   assessment_stats, batch, completed_calls, threads>>

NextKeys ==
    \/ EncodeTextSeparator
    \/ EncoderFault

SpecKeys == Init /\ [][NextKeys]_vars

(* Calls of assess_candidate_enhanced running in threads on one engine.     *)
(* Each call is made with the default flags for a candidate of its own.  A  *)
(* thread runs the semantic part, the traditional part and the final part   *)
(* of its call in turn; the dict operations of the caches are atomic, and   *)
(* every 'self.assessment_stats[key] += 1' is a load of the counter         *)
(* followed by a store of the loaded value plus one, between which the      *)
(* other threads may run.                                                   *)

ThreadCall(candidate_data, trad) ==
    [pc |-> "semantic", candidate_data |-> candidate_data, trad |-> trad,
     c |-> Call(InitialResult(candidate_data, ProfessorJob), InitialStats,
                CurrentEngine, TRUE),
     key |-> "", reg |-> 0, next |-> ""]

\* the counter that a part of the call increments, "" when it increments none
CountedKey(before, after) ==
    IF \E k \in DOMAIN before : after[k] > before[k]
    THEN CHOOSE k \in DOMAIN before : after[k] > before[k]
    ELSE ""

\* thread th has run a part of its call, which took c to c1
AfterPart(th, c1, next) ==
    [th EXCEPT !.c = c1,
               !.key = CountedKey(th.c.stats, c1.stats),
               !.pc = IF CountedKey(th.c.stats, c1.stats) = "" THEN next ELSE "load",
               !.next = next]

Taken(candidate_data) ==
    \E u \in 1..NumThreads :
        threads[u].pc # "idle" /\ threads[u].candidate_data = candidate_data

ThreadBegin ==
    /\ \E t \in 1..NumThreads, candidate_data \in Candidates, trad \in TradOutcomes :
        /\ threads[t].pc = "idle"
        /\ ~Taken(candidate_data)
        /\ threads' = [threads EXCEPT ![t] = ThreadCall(candidate_data, trad)]
    /\ UNCHANGED <<deps_available, model_loaded, encode_raises, job_embeddings_cache,
                   candidate_embeddings_cache, job_file, candidate_file,
                   semantic_weights, assessment_stats, batch, completed_calls, last>>

SemanticStep(t, c1) ==
    /\ threads' = [threads EXCEPT ![t] = AfterPart(threads[t], c1, "traditional")]
    /\ StoreEngine(c1.e)

ThreadSemantic ==
    /\ \E t \in 1..NumThreads :
        /\ threads[t].pc = "semantic"
        /\ SemanticStep(t, SemanticPart([threads[t].c EXCEPT !.e = CurrentEngine],
                                        threads[t].candidate_data, ProfessorJob,
                                        TRUE, semantic_weights))
    /\ UNCHANGED <<deps_available, model_loaded, encode_raises, semantic_weights,
                   assessment_stats, batch, completed_calls, last>>

ThreadTraditional ==
    /\ \E t \in 1..NumThreads :
        /\ threads[t].pc = "traditional"
        /\ threads' = [threads EXCEPT ![t] =
               AfterPart(threads[t], TraditionalPart(threads[t].c, threads[t].trad),
                         "finish")]
    /\ UNCHANGED <<deps_available, model_loaded, encode_raises, job_embeddings_cache,
                   candidate_embeddings_cache, job_file, candidate_file,
                   semantic_weights, assessment_stats, batch, completed_calls, last>>

ThreadFinish ==
    /\ \E t \in 1..NumThreads :
        /\ threads[t].pc = "finish"
        /\ threads' = [threads EXCEPT ![t] =
               AfterPart(threads[t], FinishPart(threads[t].c), "return")]
    /\ UNCHANGED <<deps_available, model_loaded, encode_raises, job_embeddings_cache,
                   candidate_embeddings_cache, job_file, candidate_file,
                   semantic_weights, assessment_stats, batch, completed_calls, last>>

\* the read of self.assessment_stats[key] in '+= 1'
ThreadLoad ==
    /\ \E t \in 1..NumThreads :
        /\ threads[t].pc = "load"
        /\ threads' = [threads EXCEPT ![t].reg = assessment_stats[threads[t].key],
                                      ![t].pc = "store"]
    /\ UNCHANGED <<deps_available, model_loaded, encode_raises, job_embeddings_cache,
                   candidate_embeddings_cache, job_file, candidate_file,
                   semantic_weights, assessment_stats, batch, completed_calls, last>>

\* the write of self.assessment_stats[key] in '+= 1'
ThreadStore ==
    /\ \E t \in 1..NumThreads :
        /\ threads[t].pc = "store"
        /\ assessment_stats' =
               [assessment_stats EXCEPT ![threads[t].key] = threads[t].reg + 1]
        /\ threads' = [threads EXCEPT ![t].pc = threads[t].next]
    /\ UNCHANGED <<deps_available, model_loaded, encode_raises, job_embeddings_cache,
                   candidate_embeddings_cache, job_file, candidate_file,
                   semantic_weights, batch, completed_calls, last>>

ThreadReturn ==
    /\ \E t \in 1..NumThreads :
        /\ threads[t].pc = "return"
        /\ threads' = [threads EXCEPT ![t].pc = "done"]
        /\ last' = [op |-> "thread_return", thread |-> t,
                    result |-> threads[t].c.result]
    /\ completed_calls' = completed_calls + 1
    /\ UNCHANGED <<deps_available, model_loaded, encode_raises, job_embeddings_cache,
                   candidate_embeddings_cache, job_file, candidate_file,
                   semantic_weights, assessment_stats, batch>>

NextThreads ==
    \/ ThreadBegin
    \/ ThreadSemantic
    \/ ThreadTraditional
    \/ ThreadFinish
    \/ ThreadLoad
    \/ ThreadStore
    \/ ThreadReturn

SpecThreads == Init /\ [][NextThreads]_vars

(* The cache files: the caches are saved, a new engine is made with or       *)
(* without loading them, and a file can be damaged or removed meanwhile.     *)

CacheTypes == {"job", "candidate", "both"}

SaveEmbeddingCache ==
    /\ \E cache_type \in CacheTypes :
        /\ StoreEngine(save_embedding_cache(CurrentEngine, cache_type))
        /\ last' = [op |-> "save", cache_type |-> cache_type,
                    job |-> job_embeddings_cache,
                    candidate |-> candidate_embeddings_cache]
    /\ UNCHANGED <<deps_available, model_loaded, encode_raises, semantic_weights,
                   assessment_stats, batch, completed_calls, threads>>

\* UniversitySemanticEngine(): both caches start empty, nothing is loaded
NewEngine ==
    /\ job_embeddings_cache' = EmptyCache
    /\ candidate_embeddings_cache' = EmptyCache
    /\ last' = [op |-> "new_engine"]
    /\ UNCHANGED <<deps_available, model_loaded, encode_raises, job_file,
                   candidate_file, semantic_weights, assessment_stats, batch,
                   completed_calls, threads>>

\* the caches saved by the call before, when it was _save_embedding_cache('both')
SavedBefore ==
    IF last.op = "save" /\ last.cache_type = "both"
    THEN <<[job |-> last.job, candidate |-> last.candidate]>> ELSE <<>>

\* get_semantic_engine in a new process: a fresh engine that loads the caches
GetSemanticEngine ==
    /\ StoreEngine(load_embedding_cache(
           Engine(EmptyCache, EmptyCache, job_file, candidate_file, <<>>)))
    /\ last' = [op |-> "load", fresh |-> TRUE, after_save |-> SavedBefore]
    /\ UNCHANGED <<deps_available, model_loaded, encode_raises, semantic_weights,
                   assessment_stats, batch, completed_calls, threads>>

\* _load_embedding_cache called on the engine as it is
LoadEmbeddingCache ==
    /\ StoreEngine(load_embedding_cache(CurrentEngine))
    /\ last' = [op |-> "load", fresh |-> FALSE, after_save |-> <<>>]
    /\ UNCHANGED <<deps_available, model_loaded, encode_raises, semantic_weights,
                   assessment_stats, batch, completed_calls, threads>>

Damaged(file) == [file EXCEPT !.corrupt = TRUE]

\* a cache file is damaged or removed behind the engine's back
FileFault ==
    /\ \/ job_file.exists /\ job_file' \in {Damaged(job_file), NoFile}
          /\ UNCHANGED candidate_file
       \/ candidate_file.exists /\ candidate_file' \in {Damaged(candidate_file), NoFile}
          /\ UNCHANGED job_file
    /\ last' = [op |-> "file_fault"]
    /\ UNCHANGED <<deps_available, model_loaded, encode_raises, job_embeddings_cache,
                   candidate_embeddings_cache, semantic_weights, assessment_stats,
                   batch, completed_calls, threads>>

NextCache ==
    \/ EncodeText
    \/ EncodeJobRequirements
    \/ SaveEmbeddingCache
    \/ NewEngine
    \/ GetSemanticEngine
    \/ LoadEmbeddingCache
    \/ FileFault

SpecCache == Init /\ [][NextCache]_vars

(* The similarity calculator on its own: two arguments, each a vector (unit  *)
(* or not) or None, and calculate_semantic_similarity applied to them        *)
SimilarityArguments ==
    {<<1000, 0>>, <<0, 1000>>, <<600, 800>>, <<-1000, 0>>, <<800, 600>>,
     <<-600, -800>>, <<2000, 0>>, <<-2000, 0>>, <<0, 0>>, NoVector}

InitSimilarity ==
    /\ deps_available = TRUE
    /\ model_loaded = TRUE
    /\ encode_raises = FALSE
    /\ job_embeddings_cache = EmptyCache
    /\ candidate_embeddings_cache = EmptyCache
    /\ job_file = NoFile
    /\ candidate_file = NoFile
    /\ semantic_weights = DefaultWeights
    /\ assessment_stats = InitialStats
    /\ batch = NoBatch
    /\ threads = NoThreads
    /\ completed_calls = 0
    /\ last \in [op : {"vectors"}, candidate_embedding : SimilarityArguments,
                  job_embedding : SimilarityArguments]

CalculateSemanticSimilarity ==
    /\ last.op = "vectors"
    /\ last' = [op |-> "similarity",
                candidate_embedding |-> last.candidate_embedding,
                job_embedding |-> last.job_embedding,
                similarity |-> calculate_semantic_similarity(last.candidate_embedding,
                                                             last.job_embedding)]
    /\ UNCHANGED <<deps_available, model_loaded, encode_raises, job_embeddings_cache,
                   candidate_embeddings_cache, job_file, candidate_file,
                   semantic_weights, assessment_stats, batch, completed_calls, threads>>

SpecSimilarity == InitSimilarity /\ [][CalculateSemanticSimilarity]_vars

(* The weighted blend on its own: category scores (thousandths) and weights  *)
(* are drawn from samples, and the blend of lines 180-198 and 226 is applied *)
ScoreSamples == {0, 1, 400, 600, 700, 800, 1000}

BlendWeightSets ==
    {DefaultWeights, Weights(60, 60, 60, 10), Weights(-10, 45, 15, 5)}

InitBlend ==
    /\ deps_available = TRUE
    /\ model_loaded = TRUE
    /\ encode_raises = FALSE
    /\ job_embeddings_cache = EmptyCache
    /\ candidate_embeddings_cache = EmptyCache
    /\ job_file = NoFile
    /\ candidate_file = NoFile
    /\ semantic_weights \in BlendWeightSets
    /\ assessment_stats = InitialStats
    /\ batch = NoBatch
    /\ threads = NoThreads
    /\ completed_calls = 0
    /\ last \in [op : {"scores"}, education_relevance : ScoreSamples,
                  experience_relevance : ScoreSamples,
                  training_relevance : ScoreSamples, overall_score : ScoreSamples]

BlendScores ==
    /\ last.op = "scores"
    /\ last' = [op |-> "blend",
                education_relevance |-> last.education_relevance,
                experience_relevance |-> last.experience_relevance,
                training_relevance |-> last.training_relevance,
                overall_score |-> last.overall_score,
                final_score |-> FinalSemanticScore(last.education_relevance,
                                                   last.experience_relevance,
                                                   last.training_relevance,
                                                   last.overall_score,
                                                   semantic_weights)]
    /\ UNCHANGED <<deps_available, model_loaded, encode_raises, job_embeddings_cache,
                   candidate_embeddings_cache, job_file, candidate_file,
                   semantic_weights, assessment_stats, batch, completed_calls, threads>>

SpecBlend == InitBlend /\ [][BlendScores]_vars

(* The text formatting on its own: a record list is handed to a category   *)
(* formatter, or one record to the code that renders it.                    *)

EducationRecords ==
    {[level |-> "College", school |-> "UP", degree_course |-> "BS"],
     [level |-> "College", school |-> "UP", degree_course |-> "N/a"],
     [education_level |-> "Graduate", institution |-> "MIT", degree |-> "PhD"],
     [level |-> "", school |-> "", degree_course |-> ""],
     [year_graduated |-> "2010"]}

ExperienceRecords ==
    {[position |-> "Clerk", company |-> "LGU"],
     [job_title |-> "Lecturer", employer |-> "MIT"],
     [position |-> "", company |-> ""],
     [position |-> "Clerk"],
     [grade |-> "N/A"]}

TrainingRecords ==
    {[title |-> "Seminar", type |-> "Managerial"],
     [title |-> "Seminar", type |-> "N/a"],
     [course_title |-> "Workshop", type |-> "Technical"],
     [title |-> "", type |-> ""],
     [hours |-> "8"]}

CategoryRecords(formatter) ==
    CASE formatter = "format_education" -> EducationRecords
      [] formatter = "format_experience" -> ExperienceRecords
      [] formatter = "format_training" -> TrainingRecords

RECURSIVE ListsUpTo(_, _)
ListsUpTo(S, n) ==
    IF n = 0 THEN {<<>>}
    ELSE ListsUpTo(S, n - 1)
         \cup {Append(l, r) : l \in {k \in ListsUpTo(S, n - 1) : Len(k) = n - 1},
                               r \in S}

FormatterInputs ==
    UNION {{[op |-> "records", formatter |-> f, list |-> l] :
               l \in {NoList} \cup {List(rs) : rs \in ListsUpTo(CategoryRecords(f),
                                                                 MaxRecords)}} :
           f \in Formatters}

OptionalValues == {"", "n/a", "N/A", "N/a", "not applicable", "Cum Laude"}

RenderRecords(renderer, v) ==
    CASE renderer = "_calculate_education_relevance" ->
            {Edu("College", "BS", "UP", v, "2010"), Edu("", "", "UP", v, "")}
      [] renderer = "_calculate_experience_relevance" ->
            {Exp("Clerk", "LGU", v, ""), Exp("", "LGU", v, "")}
      [] renderer = "_calculate_training_relevance" ->
            {Train("Seminar", v, "CSC", "8"), Train("Seminar", v, "", "")}
      [] renderer = "format_education" ->
            {[level |-> "College", school |-> "UP", degree_course |-> v]}
      [] renderer = "format_training" ->
            {[title |-> "Seminar", type |-> v]}

RenderInputs ==
    UNION {{[op |-> "record", renderer |-> r, record |-> rec] :
               rec \in RenderRecords(r, v)} : r \in Renderers, v \in OptionalValues}

InitText ==
    /\ deps_available = TRUE
    /\ model_loaded = TRUE
    /\ encode_raises = FALSE
    /\ job_embeddings_cache = EmptyCache
    /\ candidate_embeddings_cache = EmptyCache
    /\ job_file = NoFile
    /\ candidate_file = NoFile
    /\ semantic_weights = DefaultWeights
    /\ assessment_stats = InitialStats
    /\ batch = NoBatch
    /\ threads = NoThreads
    /\ completed_calls = 0
    /\ last \in FormatterInputs \cup RenderInputs

FormatCategory ==
    /\ last.op = "records"
    /\ \E script \in Scripts :
        last' = [op |-> "formatted", script |-> script,
                 formatter |-> last.formatter, list |-> last.list,
                 text |-> Format(script, last.formatter, last.list)]
    /\ UNCHANGED <<deps_available, model_loaded, encode_raises, job_embeddings_cache,
                   candidate_embeddings_cache, job_file, candidate_file,
                   semantic_weights, assessment_stats, batch, completed_calls, threads>>

RenderRecord ==
    /\ last.op = "record"
    /\ last' = [op |-> "rendered", renderer |-> last.renderer,
                record |-> last.record,
                text |-> Render(last.renderer, last.record)]
    /\ UNCHANGED <<deps_available, model_loaded, encode_raises, job_embeddings_cache,
                   candidate_embeddings_cache, job_file, candidate_file,
                   semantic_weights, assessment_stats, batch, completed_calls, threads>>

NextText ==
    \/ FormatCategory
    \/ RenderRecord

SpecText == InitText /\ [][NextText]_vars

----------------------------------------------------------------------------
(* Properties of assess_candidate_enhanced.  LastAssess is the record of the *)
(* last finished call, whether made directly, by a batch run or by           *)
(* compare_scoring_methods.                                                  *)

HasAssess == last.op \in {"assess", "compare"}

LastAssess == IF last.op = "compare" THEN last.assessment ELSE last

SemanticFailed(a) == a.semantic_attempts = 1 /\ ~a.semantic_ok

\* C1: with both scorers requested, when the semantic computation fails and
\* the traditional one succeeds with total t, the result has
\* recommended_score = t and assessment_method = 'traditional_fallback'.
C1_FallbackMethod ==
    (/\ HasAssess
     /\ LastAssess.include_semantic /\ LastAssess.include_traditional
     /\ SemanticFailed(LastAssess) /\ LastAssess.traditional_ok)
    => /\ LastAssess.result.recommended_score = LastAssess.trad.final_score
       /\ LastAssess.result.assessment_method = "traditional_fallback"

\* C2: when no requested scoring method succeeds, the result has
\* recommended_score = 0, assessment_method = 'failed' and a non-empty
\* errors list.
C2_NoMethodSucceeded ==
    (HasAssess /\ ~LastAssess.semantic_ok /\ ~LastAssess.traditional_ok)
    => /\ LastAssess.result.recommended_score = 0
       /\ LastAssess.result.assessment_method = "failed"
       /\ Len(LastAssess.result.errors) > 0

C2_Witness ==
    /\ HasAssess
    /\ SemanticFailed(LastAssess)
    /\ LastAssess.traditional_attempts = 1 /\ ~LastAssess.traditional_ok
    /\ LastAssess.result.assessment_method = "failed"

\* C3: when the semantic computation succeeds with score s, the result has
\* semantic_score = s, recommended_score = s and assessment_method =
\* 'semantic', whether the traditional computation was skipped, succeeded
\* or failed.
C3_SemanticWins ==
    (HasAssess /\ LastAssess.semantic_ok)
    => /\ LastAssess.semantic_returned # None
       /\ LastAssess.result.semantic_score = LastAssess.semantic_returned
       /\ LastAssess.result.recommended_score = LastAssess.semantic_returned
       /\ LastAssess.result.assessment_method = "semantic"

C3_Witness ==
    /\ HasAssess
    /\ LastAssess.semantic_ok /\ LastAssess.traditional_ok
    /\ LastAssess.result.traditional_score # LastAssess.result.semantic_score
    /\ LastAssess.result.assessment_method = "semantic"

\* C4: with include_traditional = true the traditional computation is
\* attempted exactly once in every call, also when the semantic computation
\* raised, and its score is recorded in traditional_score when it succeeds.
C4_TraditionalAttemptedOnce ==
    (HasAssess /\ LastAssess.include_traditional)
    => /\ LastAssess.traditional_attempts = 1
       /\ (LastAssess.traditional_ok
           => LastAssess.result.traditional_score = LastAssess.trad.final_score)

C4_Witness ==
    /\ HasAssess
    /\ LastAssess.include_traditional
    /\ SemanticFailed(LastAssess)
    /\ LastAssess.traditional_attempts = 1 /\ LastAssess.traditional_ok
    /\ LastAssess.result.traditional_score = 720

\* C5: every call of assess_candidate_enhanced, batch_assess_candidates and
\* compare_scoring_methods returns a result and lets no exception escape.
C5_NoExceptionEscapes ==
    last.op \in {"assess", "compare", "batch"} => ~last.raised

ResultFields ==
    {"recommended_score", "assessment_method", "semantic_score", "traditional_score"}

\* C17: every result returned by assess_candidate_enhanced contains the
\* fields recommended_score, assessment_method, semantic_score and
\* traditional_score, and its recommended_score is a number in [0, 100],
\* never None (the traditional scorer's totals lying in [0, 100]).
C17_RecommendedScoreIsNumber ==
    HasAssess
    => /\ ResultFields \subseteq DOMAIN LastAssess.result
       /\ LastAssess.result.recommended_score # None
       /\ LastAssess.result.recommended_score \in 0..1000

C17_Witness ==
    /\ HasAssess
    /\ ~LastAssess.include_traditional
    /\ LastAssess.result.semantic_score = None
    /\ LastAssess.result.traditional_score = None
    /\ LastAssess.result.recommended_score = 0

\* C7: for a candidate whose sections are all empty and a job with a title,
\* a call that requests semantic scoring is not 'failed' because of the empty
\* data: nothing else fails (the engine is available, the encoder works, the
\* traditional scorer succeeds when requested), so the method is not 'failed'
\* and the semantic score is defined.
C7_EmptyDataNotFailed ==
    (/\ HasAssess
     /\ LastAssess.candidate_data = EmptyCandidate
     /\ LastAssess.job_data.title # ""
     /\ LastAssess.include_semantic
     /\ deps_available /\ LastAssess.encoder_up
     /\ (LastAssess.include_traditional => LastAssess.traditional_ok))
    => /\ LastAssess.result.assessment_method # "failed"
       /\ LastAssess.result.semantic_score # None

\* C10: update_semantic_weights called with new values for the four weights
\* the scorer uses succeeds, and the scorer's weights are the new values.
C10_ScorerWeightsAccepted ==
    (last.op = "update_weights" /\ WeightKeys \subseteq DOMAIN last.new_weights)
    => /\ ~last.raised
       /\ \A k \in WeightKeys : semantic_weights[k] = last.new_weights[k]

----------------------------------------------------------------------------
(* Properties of the embedding provider *)

Encoded == last.op = "encode_text"

\* C12: whenever no embedding model is loaded, is_available() reports the
\* degraded mode and encode_text returns the hash-derived vector of the text,
\* never None.
C12_DegradedModeHashVector ==
    (Encoded /\ ~model_loaded)
    => /\ ~is_available
       /\ last.vec # NoVector
       /\ last.vec = HashVector(last.text)

CacheHit ==
    generate_cache_key(last.text, last.context) \in DOMAIN last.cache_before

\* text[:max_sequence_length], the text the encoder is given
Truncated(text) == SubSeq(text, 1, Min(Len(text), max_sequence_length))

JobSideTexts(job_data) ==
    {JobText(job_data), job_data.title \o " " \o job_data.requirements,
     BroadJobText(job_data)}

JobSideContexts(job_data) ==
    {"job_" \o job_data.id, "job_edu_comparison", "job_exp_comparison",
     "job_training_comparison"}

JobSideKeys ==
    {generate_cache_key(t, c) :
        t \in UNION {JobSideTexts(j) : j \in Jobs},
        c \in UNION {JobSideContexts(j) : j \in Jobs}}

\* C14: job embeddings and candidate embeddings are kept in separate caches:
\* after any sequence of encoding and scoring operations the job cache holds
\* only embeddings of job text and the candidate cache holds no embedding of
\* job text.
C14_CachesSeparate ==
    /\ DOMAIN job_embeddings_cache \subseteq JobSideKeys
    /\ DOMAIN candidate_embeddings_cache \cap JobSideKeys = {}

----------------------------------------------------------------------------
(* Properties of calculate_detailed_semantic_score.  A property that looks   *)
(* at the embeddings of the call evaluates them in the state the call left:  *)
(* an embedding that failed stored nothing and fails again, one that         *)
(* succeeded is now served from the cache, as long as the encoder is as it   *)
(* was during the call.                                                      *)

Detailed == last.op = "detailed"

DetailedAsCalled == Detailed /\ is_available /\ encode_raises = last.encode_raises

ProfileEmbedding == encode_candidate_profile(last.candidate_data, CurrentEngine).vec

JobEmbedding == encode_job_requirements(last.job_data, CurrentEngine).vec

\* one of the two embeddings of a category comparison is None
CategoryEmbeddingFailed(texts, ctx, job_text, job_ctx) ==
    /\ Len(texts) > 0
    /\ \/ encode_text(Join(texts, " | "), ctx, TRUE, CurrentEngine).vec = NoVector
       \/ encode_text(job_text, job_ctx, TRUE, CurrentEngine).vec = NoVector

SomeEmbeddingFailed ==
    \/ ProfileEmbedding = NoVector
    \/ JobEmbedding = NoVector
    \/ CategoryEmbeddingFailed(EducationTexts(last.candidate_data), "education",
                               last.job_data.title \o " " \o last.job_data.requirements,
                               "job_edu_comparison")
    \/ CategoryEmbeddingFailed(ExperienceTexts(last.candidate_data), "experience",
                               BroadJobText(last.job_data), "job_exp_comparison")
    \/ CategoryEmbeddingFailed(TrainingTexts(last.candidate_data), "training",
                               BroadJobText(last.job_data), "job_training_comparison")

\* the score field keeps three decimals of a similarity in millionths
Rounded3(score) == RoundDiv(score, 1000)

\* C15: in calculate_detailed_semantic_score the failure of one embedding
\* (None) sets only the score of its own category to 0.0 and records an error
\* annotation in the breakdown; the other scores (of education, experience,
\* training, overall) are still computed and returned.
C15_FailureIsolatedPerCategory ==
    DetailedAsCalled
    => /\ SomeEmbeddingFailed => last.details.error # ""
       /\ last.details.education_relevance
          = Rounded3(calculate_education_relevance(last.candidate_data, last.job_data,
                                                   CurrentEngine).score)
       /\ last.details.experience_relevance
          = Rounded3(calculate_experience_relevance(last.candidate_data, last.job_data,
                                                    CurrentEngine).score)
       /\ last.details.training_relevance
          = Rounded3(calculate_training_relevance(last.candidate_data, last.job_data,
                                                  CurrentEngine).score)
       /\ (ProfileEmbedding # NoVector /\ JobEmbedding # NoVector)
          => last.details.overall_score
             = Rounded3(calculate_semantic_similarity(ProfileEmbedding, JobEmbedding))

SameScores(d1, d2) ==
    /\ d1.overall_score = d2.overall_score
    /\ d1.education_relevance = d2.education_relevance
    /\ d1.experience_relevance = d2.experience_relevance
    /\ d1.training_relevance = d2.training_relevance

\* the call before was the same call, and this one found every embedding it
\* needed in the caches: it handed nothing to the encoder
RepeatedWarm == Detailed /\ last.previous # <<>> /\ last.encoder_calls = <<>>

\* C16: calling calculate_detailed_semantic_score twice with identical
\* candidate and job input, the second time with a warm cache, returns
\* identical overall_score, education_relevance, experience_relevance and
\* training_relevance.
C16_RepeatedCallSameScores ==
    RepeatedWarm => SameScores(last.details, last.previous[1])

C16_Witness ==
    /\ RepeatedWarm
    /\ model_loaded
    /\ last.details.error = ""
    /\ last.details.education_relevance > 0
    /\ last.details.overall_score > 0
    /\ SameScores(last.details, last.previous[1])

ScoreFields ==
    {"overall_score", "education_relevance", "experience_relevance",
     "training_relevance"}

----------------------------------------------------------------------------
(* Properties of calculate_semantic_similarity, in millionths *)

Compared == last.op = "similarity"

BothVectors ==
    last.candidate_embedding # NoVector /\ last.job_embedding # NoVector

\* dot(a, b) of the two arguments
LastDot ==
    last.candidate_embedding[1] * last.job_embedding[1]
    + last.candidate_embedding[2] * last.job_embedding[2]

\* C19: calculate_semantic_similarity returns max(0, min(1, (dot(a, b) + 1) / 2)):
\* for every pair of vectors the result lies in [0, 1], and for a unit vector
\* a, similarity(a, a) = 1.
C19_RescaledClampedDot ==
    (Compared /\ BothVectors)
    => /\ last.similarity \in 0..1000000
       /\ 2 * last.similarity = Max(0, Min(2000000, LastDot + 1000000))
       /\ (last.candidate_embedding = last.job_embedding /\ LastDot = 1000000)
          => last.similarity = 1000000

C19_Witness ==
    /\ Compared /\ BothVectors
    /\ last.candidate_embedding = <<600, 800>>
    /\ last.job_embedding = <<600, 800>>
    /\ last.similarity = 1000000

\* C20: calculate_semantic_similarity never raises: when either argument is
\* None it returns 0.0.
C20_NoneGivesZero ==
    (Compared /\ ~BothVectors) => last.similarity = 0

C20_Witness ==
    /\ Compared
    /\ last.candidate_embedding = NoVector
    /\ last.job_embedding = <<600, 800>>
    /\ last.similarity = 0

----------------------------------------------------------------------------
(* Properties of the include flags, the method label and the counters *)

TraditionalOnly(a) == ~a.include_semantic /\ a.include_traditional

\* C22: called with include_semantic = false and include_traditional = true,
\* assess_candidate_enhanced never invokes the semantic computation and,
\* when the traditional computation succeeds, the result has
\* assessment_method = 'traditional' and recommended_score equal to the
\* traditional score.
C22_TraditionalOnly ==
    (HasAssess /\ TraditionalOnly(LastAssess))
    => /\ LastAssess.semantic_attempts = 0
       /\ LastAssess.result.semantic_score = None
       /\ LastAssess.traditional_ok
          => /\ LastAssess.result.assessment_method = "traditional"
             /\ LastAssess.result.recommended_score = LastAssess.trad.final_score
             /\ LastAssess.result.traditional_score = LastAssess.trad.final_score

C22_Witness ==
    /\ HasAssess /\ TraditionalOnly(LastAssess)
    /\ deps_available /\ model_loaded /\ ~encode_raises
    /\ LastAssess.traditional_ok
    /\ LastAssess.result.assessment_method = "traditional"
    /\ LastAssess.result.recommended_score = 720

ReturnedMethods == {"semantic", "traditional", "traditional_fallback", "failed"}

\* C25: the assessment_method of every result returned by
\* assess_candidate_enhanced is one of 'semantic', 'traditional',
\* 'traditional_fallback' or 'failed'; the initial placeholder 'hybrid' is
\* never returned, whatever the include flags, the engine availability and
\* the scorer outcomes.
C25_MethodNeverHybrid ==
    HasAssess => LastAssess.result.assessment_method \in ReturnedMethods

C25_Witness ==
    /\ HasAssess
    /\ ~LastAssess.include_semantic /\ ~LastAssess.include_traditional
    /\ LastAssess.semantic_attempts = 0 /\ LastAssess.traditional_attempts = 0
    /\ LastAssess.result.assessment_method = "failed"

CountersConsistent(stats, n) ==
    /\ stats.total_assessments = n
    /\ stats.semantic_assessments + stats.fallback_to_traditional
          <= stats.total_assessments
    /\ stats.traditional_assessments <= stats.total_assessments

Increase(key) == assessment_stats'[key] - assessment_stats[key]

\* what one finished call does to the counters
OneCallCounted ==
    /\ Increase("total_assessments") = 1
    /\ Increase("semantic_assessments") \in {0, 1}
    /\ Increase("fallback_to_traditional") \in {0, 1}
    /\ Increase("semantic_assessments") + Increase("fallback_to_traditional") <= 1
    /\ Increase("traditional_assessments") \in {0, 1}

\* C27: after any sequence of completed assess_candidate_enhanced calls on
\* one engine, total_assessments equals the number of calls, each call
\* increases at most one of semantic_assessments and fallback_to_traditional,
\* so their sum is at most total_assessments, and traditional_assessments is
\* at most total_assessments.
C27_CountersFollowCalls ==
    /\ [] CountersConsistent(assessment_stats, completed_calls)
    /\ [][IF completed_calls' = completed_calls + 1
          THEN OneCallCounted
          ELSE assessment_stats' = assessment_stats]_vars

C27_Witness ==
    /\ completed_calls = 2
    /\ assessment_stats.total_assessments = 2
    /\ assessment_stats.semantic_assessments = 1
    /\ assessment_stats.fallback_to_traditional = 1
    /\ assessment_stats.traditional_assessments = 1

----------------------------------------------------------------------------
(* Properties of the text formatting *)

Placeholder(formatter) ==
    CASE formatter = "format_education" -> "No education information available"
      [] formatter = "format_experience" -> "No work experience available"
      [] formatter = "format_training" -> "No training information available"

\* C23: the category text formatters return their fixed, non-empty
\* placeholder string for every empty or missing record list, and return
\* neither an empty string nor None for any list of records.
C23_FormatterNeverEmpty ==
    last.op = "formatted"
    => /\ Falsy(last.list) => last.text = Placeholder(last.formatter)
       /\ last.text # ""

NotApplicable == {"", "n/a", "N/A", "N/a", "not applicable"}

WithoutOptional(renderer, rec) == [rec EXCEPT ![OptionalField(renderer)] = ""]

\* C24: when a record is rendered to text, an optional sub-field (honors,
\* grade, training type, course) whose value is a 'not applicable' sentinel
\* ('n/a', 'N/A', 'N/a', 'not applicable', the empty string; matched
\* without regard to case) is omitted: the text is that of the record
\* without the sub-field.
C24_SentinelOmitted ==
    (/\ last.op = "rendered"
     /\ last.record[OptionalField(last.renderer)] \in NotApplicable)
    => last.text = Render(last.renderer, WithoutOptional(last.renderer, last.record))

----------------------------------------------------------------------------
(* Properties of the migration *)

\* the database whose candidates table the run reported on: the one it
\* checked when it reports 'not needed', the one it altered otherwise
ReportedOn(m) ==
    IF m.use_sqlite /\ m.reported # "not_needed" THEN m.script_db ELSE m.app_db

HasSemanticColumns(db) ==
    db.exists /\ db.has_table /\ semantic_fields \subseteq db.columns

\* C30: run_migration returns True only when the candidates table has all
\* three semantic columns at the time it returns; a status check that
\* fails with an error is never reported as 'migration not needed' or as a
\* successful migration.
C30_TrueOnlyWhenMigrated ==
    (last.op = "migration" /\ last.returned)
    => /\ HasSemanticColumns(ReportedOn(last))
       /\ ~last.check_failed

----------------------------------------------------------------------------
(* Properties of the cache key *)

\* C28: a cache hit never returns the embedding of a different text:
\* whenever encode_text(t, c) is served from the cache, the returned vector
\* is the one the encoder produces for t, whatever encode_text calls with
\* other (text, context) pairs came before, also for texts and contexts
\* that contain the '_' separator of the cache key.
C28_HitReturnsOwnEmbedding ==
    (Encoded /\ last.use_cache /\ is_available /\ CacheHit)
    => last.vec = ModelEncode(Truncated(last.text))

----------------------------------------------------------------------------
(* Properties of calls running in threads *)

AllReturned == \A t \in 1..NumThreads : threads[t].pc = "done"

NewCaches == Engine(EmptyCache, EmptyCache, NoFile, NoFile, <<>>)

\* the call of thread th made on its own, on an engine in the initial state
Alone(th) ==
    assess_candidate_enhanced(th.candidate_data, ProfessorJob, TRUE, TRUE, th.trad,
                              semantic_weights, InitialStats, NewCaches)

SequentialNext(th, before) ==
    assess_candidate_enhanced(th.candidate_data, ProfessorJob, TRUE, TRUE, th.trad,
                              semantic_weights, before.stats, before.e)

\* the calls of threads 1..n made one after the other
RECURSIVE Sequential(_)
Sequential(n) ==
    IF n = 0 THEN [stats |-> InitialStats, e |-> NewCaches]
    ELSE SequentialNext(threads[n], Sequential(n - 1))

SameResultsAsAlone ==
    \A t \in 1..NumThreads : threads[t].c.result = Alone(threads[t]).result

\* C26: when calls of assess_candidate_enhanced for different candidates
\* interleave on one shared engine, each call returns the same result as
\* when run alone, and after all calls complete the assessment_stats
\* counters hold the same values as after running the calls one after the
\* other: no increment is lost.
C26_InterleavedAsSequential ==
    AllReturned
    => /\ SameResultsAsAlone
       /\ assessment_stats = Sequential(NumThreads).stats

----------------------------------------------------------------------------
(* Properties of the cache files *)

Unreadable(file) == ~file.exists \/ file.corrupt

\* C21: loading the caches is best effort: _load_embedding_cache returns
\* without raising, and on an engine whose caches start empty a cache whose
\* file is missing or corrupt is empty after loading.
C21_UnreadableFileGivesEmptyCache ==
    (last.op = "load" /\ last.fresh)
    => /\ Unreadable(job_file) => job_embeddings_cache = EmptyCache
       /\ Unreadable(candidate_file) => candidate_embeddings_cache = EmptyCache

C21_Witness ==
    /\ last.op = "load" /\ last.fresh
    /\ job_file.exists /\ ~job_file.corrupt
    /\ job_embeddings_cache # EmptyCache
    /\ candidate_file.exists /\ candidate_file.corrupt
    /\ candidate_file.content # EmptyCache
    /\ candidate_embeddings_cache = EmptyCache

\* C29: saving then loading is a round trip: after _save_embedding_cache('both'),
\* _load_embedding_cache on a fresh engine with the same cache directory
\* yields job and candidate caches equal to the saved ones, also when a
\* saved cache is empty and an older cache file exists.
C29_SaveLoadRoundTrip ==
    (last.op = "load" /\ last.fresh /\ last.after_save # <<>>)
    => /\ job_embeddings_cache = last.after_save[1].job
       /\ candidate_embeddings_cache = last.after_save[1].candidate

----------------------------------------------------------------------------
(* Properties of update_semantic_weights *)

\* a weight set with every key the scorer uses and every key the validation asks for
CompleteWeights(nw) ==
    /\ WeightKeys \subseteq DOMAIN nw
    /\ \A i \in 1..Len(required_keys) : required_keys[i] \in DOMAIN nw

OffSpecWeights(nw) ==
    \/ nw["education_relevance"] + nw["experience_relevance"] + nw["skills_relevance"]
       \notin 80..120
    \/ nw["education_relevance"] + nw["experience_relevance"] + nw["training_relevance"]
       \notin 80..120
    \/ \E k \in DOMAIN nw : nw[k] < 0

----------------------------------------------------------------------------
(* Properties of batch_assess_candidates *)

BothFailed(a) == ~a.semantic_ok /\ ~a.traditional_ok

\* C6: a batch over N candidates returns exactly N results, the i-th for the
\* i-th candidate; a candidate whose assessment fails gets recommended_score
\* = 0 and assessment_method = 'failed', and every candidate is assessed.
C6_BatchIsolatesFailures ==
    /\ batch.active => Len(batch.results) = Len(batch.assessed)
    /\ batch.done =>
        /\ Len(batch.results) = Len(batch.candidates)
        /\ Len(batch.assessed) = Len(batch.candidates)
        /\ \A i \in 1..Len(batch.candidates) :
            /\ i <= Len(batch.results)
            /\ batch.results[i].candidate_id = batch.candidates[i].id
            /\ batch.assessed[i].traditional_attempts = 1
            /\ BothFailed(batch.assessed[i])
               => /\ batch.results[i].recommended_score = 0
                  /\ batch.results[i].assessment_method = "failed"

C6_Witness ==
    /\ batch.done
    /\ Len(batch.candidates) = 2 /\ Len(batch.results) = 2
    /\ BothFailed(batch.assessed[1])
    /\ batch.results[1].assessment_method = "failed"
    /\ batch.results[2].assessment_method # "failed"

SemanticBatch ==
    /\ Len(batch.candidates) >= 1
    /\ batch.include_semantic
    /\ deps_available

\* C8: during one batch run over N >= 1 candidates and one job with the
\* semantic engine available (the model loaded and the encoder never
\* raising), the encoder is invoked on the job text exactly once.
C8_JobEncodedExactlyOnce ==
    (batch.done /\ SemanticBatch /\ model_loaded /\ batch.job_failures = 0)
    => batch.job_encodes = 1

\* C8 as amended: the encoder is invoked on the job text exactly once when
\* the job cache does not hold the job's key at the start of the run, and
\* never when it does; at most one invocation on the job text succeeds in a
\* run, whatever the encoder does.
C8_JobEncodedOnceUnlessCached ==
    ((batch.active \/ batch.done) /\ SemanticBatch)
    => /\ batch.job_encodes - batch.job_failures <= 1
       /\ batch.job_cached_at_start => batch.job_encodes = 0
       /\ (~batch.job_cached_at_start /\ model_loaded /\ batch.job_failures = 0)
          => batch.job_encodes = 1

C8_Witness ==
    /\ batch.done /\ SemanticBatch
    /\ Len(batch.candidates) = 2
    /\ ~batch.job_cached_at_start
    /\ batch.assessed[1].semantic_ok /\ batch.assessed[2].semantic_ok
    /\ batch.job_encodes = 1

----------------------------------------------------------------------------
(* Properties of the weighted blend *)

Blended == last.op = "blend"

\* clamp(0, 100, (edu*W_edu + exp*W_exp + train*W_train + overall*W_bonus) * 100)
\* in thousandths of a point
ClampedBlend ==
    Max(0, Min(100000,
               last.education_relevance * semantic_weights["education_relevance"]
               + last.experience_relevance * semantic_weights["experience_relevance"]
               + last.training_relevance * semantic_weights["training_relevance"]
               + last.overall_score * semantic_weights["overall_quality_bonus"]))

SpecExample ==
    /\ semantic_weights = DefaultWeights
    /\ last.education_relevance = 800 /\ last.experience_relevance = 600
    /\ last.training_relevance = 400 /\ last.overall_score = 700

\* C9: the semantic score equals clamp(0, 100, (edu*W_edu + exp*W_exp +
\* train*W_train + overall*W_bonus) * 100); for (0.8, 0.6, 0.4, 0.7) under the
\* default weights it is 64.5.
C9_ScoreIsClampedBlend ==
    Blended => /\ last.final_score * 100 = ClampedBlend
               /\ SpecExample => last.final_score = 645

\* C9 as amended: the semantic score is that value rounded to one decimal
\* place, so it lies in [0, 100] and within 0.05 of it; the example gives 64.5.
C9_ScoreIsRoundedClampedBlend ==
    Blended => /\ last.final_score \in 0..1000
               /\ Abs(last.final_score * 100 - ClampedBlend) <= 50
               /\ SpecExample => last.final_score = 645

C9_Witness ==
    /\ Blended /\ SpecExample
    /\ last.final_score = 645

====
